---- MODULE Spec2Model ----
(***************************************************************************)
(* A model of the glial streaming core: the ResponseAggregator             *)
(* and the SSEDecoder (backend/glial/streaming.py), the Agent turn loop    *)
(* (backend/glial/agent.py) and the server's _stream_round                 *)
(* (backend/server.py).                                                    *)
(*                                                                         *)
(* Four groups of variables, one per component.  Every specification       *)
(* drives one component and leaves the others' variables alone:            *)
(*   SpecAgg      the aggregator over every event kind (short streams)     *)
(*   SpecText     the aggregator over message events only (longer streams) *)
(*   SpecSink     the aggregator with a plain or a coroutine sink          *)
(*   SpecScenario the aggregator over one scripted message stream          *)
(*   SpecCalls    the aggregator over function-call deltas and their done  *)
(*   SpecDecoder  the SSEDecoder over chunks, feeding the aggregator       *)
(*   SpecAgent    Agent.__call__ composed with the aggregator              *)
(*   SpecRuns     consecutive invocations of one Agent                     *)
(*   SpecLoop     one invocation against a well-behaved endpoint, fair     *)
(*   SpecServer   concurrent _stream_round requests of one session         *)
(*                                                                         *)
(* Text is a sequence of one-character strings, so that concatenation is   *)
(* \o.  Python's None is NoneStr / NoneInt / NoneText by the field's type. *)
(***************************************************************************)
EXTENDS Integers, Sequences, FiniteSets, TLC

\* ------------------------------------------------------------------ bounds
\* events decoded from one response body, in SpecAgg / SpecText / SpecAgent
MaxEvents == 3
MaxTextEvents == 5
MaxTurnEvents == 4
\* HTTP requests of one invocation
MaxTurns == 2
\* Deltas the server's sink is called with during one response body
MaxDeltas == 1
\* chunks byte_iter delivers for one response body
MaxChunks == 4
\* text deltas of the scripted message stream
MaxScenarioDeltas == 4
\* function_call_arguments.delta events before the done event
MaxCallDeltas == 3

\* ------------------------------------------------------------------ values
NoneStr == "None"
NoneInt == -1
NoneText == <<"None">>
NoneRec == [none |-> TRUE]
EmptyMeta == [empty |-> TRUE]
EmptyText == <<>>

ItemIds == {"x", "y"}
Frags == {<<"a">>, <<"b">>}
ContentIndexes == {0, 1}

\* the position the endpoint gives an item in its output list
OutputIndexOf(id) == IF id = "x" THEN 0 ELSE 1
CallIdOf(id) == IF id = "x" THEN "call_x" ELSE "call_y"

\* a dict as a function on its keys
EmptyDict == [k \in {} |-> 0]
Put(d, k, v) == [j \in DOMAIN d \cup {k} |-> IF j = k THEN v ELSE d[j]]
Has(d, k) == k \in DOMAIN d

RECURSIVE Concat(_)
Concat(ss) == IF ss = <<>> THEN <<>> ELSE Head(ss) \o Concat(Tail(ss))

\* ------------------------------------------------------------------ json
\* json.loads on the argument strings of the model: "{}" is an empty object,
\* a run of digits without a leading zero is a number, anything else raises.
Digits == {"0", "1", "2", "3", "4", "5", "6", "7", "8", "9"}
JsonIsObject(s) == s = <<"{", "}">>
JsonIsNumber(s) ==
    /\ Len(s) >= 1
    /\ \A i \in 1..Len(s) : s[i] \in Digits
    /\ (Len(s) > 1 => s[1] # "0")
JsonValid(s) == JsonIsObject(s) \/ JsonIsNumber(s)
JsonLoads(s) == IF JsonIsObject(s) THEN [t |-> "dict", v |-> <<>>]
                                   ELSE [t |-> "int", v |-> s]
\* mutant of ParseOrRaw: a string that does not parse is recorded as null
ParseOrRaw_Null(raw) == IF JsonValid(raw) THEN JsonLoads(raw) ELSE [t |-> "null", v |-> <<>>]

\* try: parsed = json.loads(raw) / except Exception: parsed = raw
ParseOrRaw(raw) == IF JsonValid(raw) THEN JsonLoads(raw) ELSE [t |-> "str", v |-> raw]

\* ------------------------------------------------------------------ state
VARIABLES
    \* ResponseAggregator
    final,      \* self.final: the AggregatedResponse
    _msg,       \* self._msg: item id -> _MessageState
    _rsn,       \* self._rsn: item id -> _ReasoningState
    _fn,        \* self._fn: item id -> _FunctionCallState
    _ct,        \* self._ct: item id -> _CustomToolCallState
    on_delta,   \* self._on_delta: NoneStr or the name of the sink
    sink,       \* the Deltas the sink has been called with, in call order
    events,     \* the events the decoder has yielded to stream_from so far
    pending,    \* the sink invocations (positions in sink) whose awaitable has
                \* not finished
    agg_pc      \* "idle", "streaming", "awaiting" (suspended in `await res`),
                \* "returned" (stream_from returned self.final), "raised"

aggVars == <<final, _msg, _rsn, _fn, _ct, on_delta, sink, events, pending, agg_pc>>

VARIABLES
    \* SSEDecoder
    _buffer,         \* self._buffer: the text after the last line taken
    _cur_event,      \* self._cur_event
    _cur_data_lines, \* self._cur_data_lines
    received,        \* the bytes byte_iter has delivered so far
    dec_pc           \* "idle", "reading" (awaiting the next chunk), "lines" (in
                     \* the while loop), "yield" (suspended at a yield), "ended",
                     \* "raised"

decVars == <<_buffer, _cur_event, _cur_data_lines, received, dec_pc>>

VARIABLES
    \* Agent
    items,      \* self.items
    pc,         \* where Agent.__call__ stands: "idle", "post", "streaming",
                \* "function_calls", "custom_tool_calls", "returned", "raised"
    start_len,  \* start_len
    turn,       \* HTTP requests issued by this invocation
    turn_base,  \* len(self.items) when the last request was issued
    calls,      \* invocations started on this Agent
    cursor,     \* position of the tool loop in the list of calls
    ret,        \* what __call__ returned
    error,      \* the exception that left __call__
    resp_status \* resp.status of the last request of this invocation, 0 before it

agentVars == <<items, pc, start_len, turn, turn_base, calls, cursor, ret, error, resp_status>>

VARIABLES
    \* server.py
    SESSIONS,   \* SESSIONS: session id -> the Agent kept for it (named by the
                \* request that built it), or NoneStr
    STORE,      \* the messages rows of the conversation, in idx order
    agents,     \* the Agent objects built so far: [items, on_delta], on_delta
                \* naming the request whose emit closure it is bound to
    req         \* per request: the locals of its _stream_round and of the
                \* Agent.__call__ it awaits

srvVars == <<SESSIONS, STORE, agents, req>>

vars == <<aggVars, agentVars, srvVars, decVars>>

\* ------------------------------------------------------------------ models.py
AggregatedResponse ==
    [response_id |-> NoneStr, status |-> NoneStr, model |-> NoneStr,
     usage |-> NoneRec, text |-> EmptyText, reasoning_summaries |-> <<>>,
     function_calls |-> <<>>, custom_tool_calls |-> <<>>, snapshot |-> NoneRec]

Delta(kind) ==
    [kind |-> kind, output_index |-> NoneInt, item_id |-> NoneStr,
     content_index |-> NoneInt, summary_index |-> NoneInt, text |-> NoneText,
     name |-> NoneStr, call_id |-> NoneStr, status |-> NoneStr, meta |-> EmptyMeta]

MessageState(id, oi, role) == [id |-> id, output_index |-> oi, role |-> role, parts |-> EmptyDict]
ReasoningState(id, oi) == [id |-> id, output_index |-> oi, summaries |-> EmptyDict]
FunctionCallState(id, oi, name, call_id) ==
    [id |-> id, output_index |-> oi, name |-> name, call_id |-> call_id, chunks |-> <<>>]
CustomToolCallState(id, oi, name, call_id) ==
    [id |-> id, output_index |-> oi, name |-> name, call_id |-> call_id, chunks |-> <<>>]

\* ------------------------------------------------------------------ events
\* A decoded event is a record: cls is the class msgspec built (the typed variant of
\* the tag, or UnknownEvent), the other fields are the fields stream_from reads.
ItemTypes == {"message", "reasoning", "function_call", "custom_tool_call", "image"}
ToolNames == {"code_exec", "nope"}
Item(t, id, name) == [type |-> t, id |-> id, name |-> name, call_id |-> CallIdOf(id)]
Items == {Item(t, id, "code_exec") : t \in ItemTypes, id \in ItemIds}
MessageItems == {it \in Items : it.type = "message"}

\* ResponseCore: the fields the aggregator and the agent read
ResponseCore(status, output, usage) ==
    [id |-> "resp_1", status |-> status, model |-> "gpt-5", usage |-> usage, output |-> output]

Get(d, k, default) == IF k \in DOMAIN d THEN d[k] ELSE default

\* ------------------------------------------------------------------ streaming.py
\* the tags the UnknownEvent branch re-dispatches, and the typed variants with no effect
FallbackTags ==
    {"response.function_call_arguments.delta", "response.function_call_arguments.done",
     "response.custom_tool_call_input.delta", "response.custom_tool_call_input.done"}
IgnoredClasses ==
    {"ResponseOutputTextDone", "ResponseContentPartDone",
     "ResponseReasoningSummaryPartAdded", "ResponseReasoningSummaryPartDone"}

\* mutant of Emit: a sink call is skipped when it repeats the previous Delta
Emit_SkipRepeat(d) ==
    IF on_delta = NoneStr \/ (sink # <<>> /\ sink[Len(sink)] = d) THEN sink ELSE Append(sink, d)

\* ResponseAggregator._emit
Emit(d) == IF on_delta = NoneStr THEN sink ELSE Append(sink, d)

\* the body of the `async for` is done with the event and iter_events goes on
\* after its yield: self._cur_event = None; self._cur_data_lines = []; continue.
\* (dec_pc is "idle" where the events are drawn without their frames.)
Resume ==
    IF dec_pc = "yield"
    THEN /\ _cur_event' = NoneText /\ _cur_data_lines' = <<>> /\ dec_pc' = "lines"
         /\ UNCHANGED <<_buffer, received>>
    ELSE UNCHANGED decVars

\* res = self._on_delta(d): a coroutine function hands back an awaitable
Result(cb) == IF cb = "async_sink" THEN "awaitable" ELSE "none"

\* mutant of Awaited: the awaitable is left to run on its own
Awaited_NotAwaited(res) == "streaming"

\* if inspect.isawaitable(res): await res
Awaited(res) == IF res = "awaitable" THEN "awaiting" ELSE "streaming"

\* the loop `async for ev in decoder.iter_events(byte_iter)` takes the next event;
\* the case of the event (the conjuncts before this one) has called the sink or not
Take(ev) ==
    /\ agg_pc = "streaming"
    /\ events' = Append(events, ev)
    /\ LET res == IF Len(sink') > Len(sink) THEN Result(on_delta) ELSE "none"
       IN  /\ pending' = IF res = "awaitable" THEN pending \cup {Len(sink')} ELSE pending
           /\ agg_pc' = Awaited(res)
    /\ Resume
    /\ UNCHANGED <<on_delta, agentVars, srvVars>>

\* the awaitable of a sink invocation finishes; the aggregator awaiting it resumes
SinkDone(i) ==
    /\ i \in pending
    /\ pending' = pending \ {i}
    /\ agg_pc' = IF agg_pc = "awaiting" THEN "streaming" ELSE agg_pc
    /\ UNCHANGED <<final, _msg, _rsn, _fn, _ct, on_delta, sink, events, agentVars, srvVars, decVars>>

\* case ResponseCreated(response=resp)
ResponseCreated(ev) ==
    /\ ev.cls = "ResponseCreated"
    /\ final' = [final EXCEPT !.response_id = ev.response.id,
                              !.model = ev.response.model,
                              !.status = ev.response.status]
    /\ sink' = Emit([Delta("response.status") EXCEPT !.status = ev.response.status])
    /\ UNCHANGED <<_msg, _rsn, _fn, _ct>>
    /\ Take(ev)

\* case ResponseInProgress(response=resp)
ResponseInProgress(ev) ==
    /\ ev.cls = "ResponseInProgress"
    /\ final' = [final EXCEPT !.status = ev.response.status]
    /\ sink' = Emit([Delta("response.status") EXCEPT !.status = ev.response.status])
    /\ UNCHANGED <<_msg, _rsn, _fn, _ct>>
    /\ Take(ev)

ItemStarted(ev) ==
    [Delta("item.started") EXCEPT !.output_index = ev.output_index,
                                  !.item_id = ev.item.id,
                                  !.meta = [type |-> ev.item.type]]

\* mutant of ResponseOutputItemAdded: a message item is registered without its
\* item.started Delta
ResponseOutputItemAdded_SilentMessage(ev) ==
    /\ ev.cls = "ResponseOutputItemAdded"
    /\ LET id == ev.item.id
           oi == ev.output_index
           t == ev.item.type
       IN  /\ _msg' = IF t = "message"
                      THEN Put(_msg, id, MessageState(id, oi, "assistant")) ELSE _msg
           /\ _rsn' = IF t = "reasoning"
                      THEN Put(_rsn, id, ReasoningState(id, oi)) ELSE _rsn
           /\ _fn' = IF t = "function_call"
                     THEN Put(_fn, id, FunctionCallState(id, oi, ev.item.name, ev.item.call_id))
                     ELSE _fn
           /\ _ct' = IF t = "custom_tool_call"
                     THEN Put(_ct, id, CustomToolCallState(id, oi, ev.item.name, ev.item.call_id))
                     ELSE _ct
           /\ sink' = IF t = "message" THEN sink
                      ELSE IF t \in {"function_call", "custom_tool_call"}
                      THEN Emit([ItemStarted(ev) EXCEPT !.name = ev.item.name,
                                                        !.call_id = ev.item.call_id])
                      ELSE Emit(ItemStarted(ev))
    /\ UNCHANGED final
    /\ Take(ev)

\* case ResponseOutputItemAdded(output_index=oi, item=item)
ResponseOutputItemAdded(ev) ==
    /\ ev.cls = "ResponseOutputItemAdded"
    /\ LET id == ev.item.id
           oi == ev.output_index
           t == ev.item.type
       IN  /\ _msg' = IF t = "message"
                      THEN Put(_msg, id, MessageState(id, oi, "assistant")) ELSE _msg
           /\ _rsn' = IF t = "reasoning"
                      THEN Put(_rsn, id, ReasoningState(id, oi)) ELSE _rsn
           /\ _fn' = IF t = "function_call"
                     THEN Put(_fn, id, FunctionCallState(id, oi, ev.item.name, ev.item.call_id))
                     ELSE _fn
           /\ _ct' = IF t = "custom_tool_call"
                     THEN Put(_ct, id, CustomToolCallState(id, oi, ev.item.name, ev.item.call_id))
                     ELSE _ct
           /\ sink' = IF t \in {"function_call", "custom_tool_call"}
                      THEN Emit([ItemStarted(ev) EXCEPT !.name = ev.item.name,
                                                        !.call_id = ev.item.call_id])
                      ELSE Emit(ItemStarted(ev))
    /\ UNCHANGED final
    /\ Take(ev)

\* mutant of ResponseContentPartAdded: the slot is emptied when it exists
ResponseContentPartAdded_Reset(ev) ==
    /\ ev.cls = "ResponseContentPartAdded"
    /\ _msg' = IF Has(_msg, ev.item_id)
               THEN [_msg EXCEPT ![ev.item_id].parts = Put(@, ev.content_index, <<>>)]
               ELSE _msg
    /\ UNCHANGED <<final, _rsn, _fn, _ct, sink>>
    /\ Take(ev)

\* case ResponseContentPartAdded: st.parts.setdefault(ci, [])
ResponseContentPartAdded(ev) ==
    /\ ev.cls = "ResponseContentPartAdded"
    /\ _msg' = IF Has(_msg, ev.item_id) /\ ~Has(_msg[ev.item_id].parts, ev.content_index)
               THEN [_msg EXCEPT ![ev.item_id].parts = Put(@, ev.content_index, <<>>)]
               ELSE _msg
    /\ UNCHANGED <<final, _rsn, _fn, _ct, sink>>
    /\ Take(ev)

\* mutant of ResponseOutputTextDelta: the aggregate text grows only for a
\* registered message item
ResponseOutputTextDelta_RegisteredOnly(ev) ==
    /\ ev.cls = "ResponseOutputTextDelta"
    /\ _msg' = IF Has(_msg, ev.item_id)
               THEN [_msg EXCEPT ![ev.item_id].parts =
                        Put(@, ev.content_index,
                            Append(Get(@, ev.content_index, <<>>), ev.delta))]
               ELSE _msg
    /\ final' = IF Has(_msg, ev.item_id) THEN [final EXCEPT !.text = @ \o ev.delta] ELSE final
    /\ sink' = Emit([Delta("text") EXCEPT !.output_index = ev.output_index,
                                          !.item_id = ev.item_id,
                                          !.content_index = ev.content_index,
                                          !.text = ev.delta])
    /\ UNCHANGED <<_rsn, _fn, _ct>>
    /\ Take(ev)

\* mutant of ResponseOutputTextDelta: the fragment replaces the text
ResponseOutputTextDelta_Overwrite(ev) ==
    /\ ev.cls = "ResponseOutputTextDelta"
    /\ _msg' = IF Has(_msg, ev.item_id)
               THEN [_msg EXCEPT ![ev.item_id].parts =
                        Put(@, ev.content_index,
                            Append(Get(@, ev.content_index, <<>>), ev.delta))]
               ELSE _msg
    /\ final' = [final EXCEPT !.text = ev.delta]
    /\ sink' = Emit([Delta("text") EXCEPT !.output_index = ev.output_index,
                                          !.item_id = ev.item_id,
                                          !.content_index = ev.content_index,
                                          !.text = ev.delta])
    /\ UNCHANGED <<_rsn, _fn, _ct>>
    /\ Take(ev)

\* case ResponseOutputTextDelta
ResponseOutputTextDelta(ev) ==
    /\ ev.cls = "ResponseOutputTextDelta"
    /\ _msg' = IF Has(_msg, ev.item_id)
               THEN [_msg EXCEPT ![ev.item_id].parts =
                        Put(@, ev.content_index,
                            Append(Get(@, ev.content_index, <<>>), ev.delta))]
               ELSE _msg
    /\ final' = [final EXCEPT !.text = @ \o ev.delta]
    /\ sink' = Emit([Delta("text") EXCEPT !.output_index = ev.output_index,
                                          !.item_id = ev.item_id,
                                          !.content_index = ev.content_index,
                                          !.text = ev.delta])
    /\ UNCHANGED <<_rsn, _fn, _ct>>
    /\ Take(ev)

\* mutant of Ignored: an unhandled typed event is forwarded as an unknown Delta
Ignored_Forwarded(ev) ==
    /\ ev.cls \in IgnoredClasses
    /\ sink' = Emit(Delta("unknown"))
    /\ UNCHANGED <<final, _msg, _rsn, _fn, _ct>>
    /\ Take(ev)

\* case ResponseOutputTextDone(): pass / case ResponseContentPartDone(): pass /
\* case _: pass (ResponseReasoningSummaryPartAdded, ResponseReasoningSummaryPartDone)
Ignored(ev) ==
    /\ ev.cls \in IgnoredClasses
    /\ UNCHANGED <<final, _msg, _rsn, _fn, _ct, sink>>
    /\ Take(ev)

\* case ResponseReasoningSummaryTextDelta
ResponseReasoningSummaryTextDelta(ev) ==
    /\ ev.cls = "ResponseReasoningSummaryTextDelta"
    /\ _rsn' = IF Has(_rsn, ev.item_id)
               THEN [_rsn EXCEPT ![ev.item_id].summaries =
                        Put(@, ev.summary_index,
                            Append(Get(@, ev.summary_index, <<>>), ev.delta))]
               ELSE _rsn
    /\ sink' = Emit([Delta("reasoning") EXCEPT !.output_index = ev.output_index,
                                               !.item_id = ev.item_id,
                                               !.summary_index = ev.summary_index,
                                               !.text = ev.delta])
    /\ UNCHANGED <<final, _msg, _fn, _ct>>
    /\ Take(ev)

\* case ResponseReasoningSummaryTextDone(text=full_text)
ResponseReasoningSummaryTextDone(ev) ==
    /\ ev.cls = "ResponseReasoningSummaryTextDone"
    /\ final' = [final EXCEPT !.reasoning_summaries = Append(@, ev.text)]
    /\ UNCHANGED <<_msg, _rsn, _fn, _ct, sink>>
    /\ Take(ev)

\* the function.arguments Delta of the typed and of the fallback branch
FunctionArgumentsDelta(oi, item_id, chunk) ==
    [Delta("function.arguments") EXCEPT !.output_index = oi, !.item_id = item_id,
                                        !.text = chunk]

\* the record appended to final.function_calls by both branches
FunctionCallRecord(item_id, oi, raw) ==
    [id |-> item_id, output_index |-> oi,
     name |-> IF Has(_fn, item_id) THEN _fn[item_id].name ELSE NoneStr,
     call_id |-> IF Has(_fn, item_id) THEN _fn[item_id].call_id ELSE NoneStr,
     arguments |-> ParseOrRaw(raw), arguments_raw |-> raw]

\* mutant of ResponseFunctionCallArgumentsDelta: the Delta is forwarded only for a
\* registered function call
ResponseFunctionCallArgumentsDelta_RegisteredOnly(ev) ==
    /\ ev.cls = "ResponseFunctionCallArgumentsDelta"
    /\ _fn' = IF Has(_fn, ev.item_id)
              THEN [_fn EXCEPT ![ev.item_id].chunks = Append(@, ev.delta)] ELSE _fn
    /\ sink' = IF Has(_fn, ev.item_id)
               THEN Emit(FunctionArgumentsDelta(ev.output_index, ev.item_id, ev.delta))
               ELSE sink
    /\ UNCHANGED <<final, _msg, _rsn, _ct>>
    /\ Take(ev)

\* mutant of ResponseFunctionCallArgumentsDelta: the fragment is put in front
ResponseFunctionCallArgumentsDelta_Prepend(ev) ==
    /\ ev.cls = "ResponseFunctionCallArgumentsDelta"
    /\ _fn' = IF Has(_fn, ev.item_id)
              THEN [_fn EXCEPT ![ev.item_id].chunks = <<ev.delta>> \o @] ELSE _fn
    /\ sink' = Emit(FunctionArgumentsDelta(ev.output_index, ev.item_id, ev.delta))
    /\ UNCHANGED <<final, _msg, _rsn, _ct>>
    /\ Take(ev)

\* case ResponseFunctionCallArgumentsDelta
ResponseFunctionCallArgumentsDelta(ev) ==
    /\ ev.cls = "ResponseFunctionCallArgumentsDelta"
    /\ _fn' = IF Has(_fn, ev.item_id)
              THEN [_fn EXCEPT ![ev.item_id].chunks = Append(@, ev.delta)] ELSE _fn
    /\ sink' = Emit(FunctionArgumentsDelta(ev.output_index, ev.item_id, ev.delta))
    /\ UNCHANGED <<final, _msg, _rsn, _ct>>
    /\ Take(ev)

\* case ResponseFunctionCallArgumentsDone
ResponseFunctionCallArgumentsDone(ev) ==
    /\ ev.cls = "ResponseFunctionCallArgumentsDone"
    /\ final' = [final EXCEPT !.function_calls =
                    Append(@, FunctionCallRecord(ev.item_id, ev.output_index, ev.arguments))]
    /\ UNCHANGED <<_msg, _rsn, _fn, _ct, sink>>
    /\ Take(ev)

CustomInputDelta(oi, item_id, chunk) ==
    [Delta("custom.input") EXCEPT !.output_index = oi, !.item_id = item_id, !.text = chunk]

CustomToolCallRecord(item_id, oi, inp) ==
    [id |-> item_id, output_index |-> oi,
     name |-> IF Has(_ct, item_id) THEN _ct[item_id].name ELSE NoneStr,
     call_id |-> IF Has(_ct, item_id) THEN _ct[item_id].call_id ELSE NoneStr,
     input |-> inp]

\* case ResponseCustomToolCallInputDelta
ResponseCustomToolCallInputDelta(ev) ==
    /\ ev.cls = "ResponseCustomToolCallInputDelta"
    /\ _ct' = IF Has(_ct, ev.item_id)
              THEN [_ct EXCEPT ![ev.item_id].chunks = Append(@, ev.delta)] ELSE _ct
    /\ sink' = Emit(CustomInputDelta(ev.output_index, ev.item_id, ev.delta))
    /\ UNCHANGED <<final, _msg, _rsn, _fn>>
    /\ Take(ev)

\* case ev if isinstance(ev, ResponseCustomToolCallInputDone)
ResponseCustomToolCallInputDone(ev) ==
    /\ ev.cls = "ResponseCustomToolCallInputDone"
    /\ final' = [final EXCEPT !.custom_tool_calls =
                    Append(@, CustomToolCallRecord(ev.item_id, ev.output_index, ev.input))]
    /\ UNCHANGED <<_msg, _rsn, _fn, _ct, sink>>
    /\ Take(ev)

\* case ResponseOutputItemDone(output_index=oi, item=item)
ResponseOutputItemDone(ev) ==
    /\ ev.cls = "ResponseOutputItemDone"
    /\ sink' = Emit([Delta("item.completed") EXCEPT !.output_index = ev.output_index,
                                                    !.item_id = ev.item.id,
                                                    !.meta = [item |-> ev.item]])
    /\ UNCHANGED <<final, _msg, _rsn, _fn, _ct>>
    /\ Take(ev)

\* case ResponseCompleted(response=resp): the loop goes on to the next event
ResponseCompleted(ev) ==
    /\ ev.cls = "ResponseCompleted"
    /\ final' = [final EXCEPT !.snapshot = ev.response,
                              !.response_id = ev.response.id,
                              !.status = ev.response.status,
                              !.model = ev.response.model,
                              !.usage = ev.response.usage]
    /\ sink' = Emit([Delta("response.status") EXCEPT !.status = ev.response.status])
    /\ UNCHANGED <<_msg, _rsn, _fn, _ct>>
    /\ Take(ev)

\* mutant of UnknownFunctionCallArgumentsDelta: the event is forwarded as unknown
UnknownFunctionCallArgumentsDelta_Forwarded(ev) ==
    /\ ev.cls = "UnknownEvent" /\ ev.type = "response.function_call_arguments.delta"
    /\ sink' = Emit([Delta("unknown") EXCEPT !.meta = ev.raw])
    /\ UNCHANGED <<final, _msg, _rsn, _fn, _ct>>
    /\ Take(ev)

\* case UnknownEvent(type=typ, __raw__=raw), typ one of the four fallback tags
UnknownFunctionCallArgumentsDelta(ev) ==
    /\ ev.cls = "UnknownEvent" /\ ev.type = "response.function_call_arguments.delta"
    /\ LET item_id == Get(ev.raw, "item_id", NoneStr)
           oi == Get(ev.raw, "output_index", NoneInt)
           delta == Get(ev.raw, "delta", EmptyText)
       IN  /\ _fn' = IF Has(_fn, item_id)
                     THEN [_fn EXCEPT ![item_id].chunks = Append(@, delta)] ELSE _fn
           /\ sink' = Emit(FunctionArgumentsDelta(oi, item_id, delta))
    /\ UNCHANGED <<final, _msg, _rsn, _ct>>
    /\ Take(ev)

UnknownFunctionCallArgumentsDone(ev) ==
    /\ ev.cls = "UnknownEvent" /\ ev.type = "response.function_call_arguments.done"
    /\ final' = [final EXCEPT !.function_calls =
                    Append(@, FunctionCallRecord(Get(ev.raw, "item_id", NoneStr),
                                                 Get(ev.raw, "output_index", NoneInt),
                                                 Get(ev.raw, "arguments", EmptyText)))]
    /\ UNCHANGED <<_msg, _rsn, _fn, _ct, sink>>
    /\ Take(ev)

UnknownCustomToolCallInputDelta(ev) ==
    /\ ev.cls = "UnknownEvent" /\ ev.type = "response.custom_tool_call_input.delta"
    /\ LET item_id == Get(ev.raw, "item_id", NoneStr)
           oi == Get(ev.raw, "output_index", NoneInt)
           delta == Get(ev.raw, "delta", EmptyText)
       IN  /\ _ct' = IF Has(_ct, item_id)
                     THEN [_ct EXCEPT ![item_id].chunks = Append(@, delta)] ELSE _ct
           /\ sink' = Emit(CustomInputDelta(oi, item_id, delta))
    /\ UNCHANGED <<final, _msg, _rsn, _fn>>
    /\ Take(ev)

UnknownCustomToolCallInputDone(ev) ==
    /\ ev.cls = "UnknownEvent" /\ ev.type = "response.custom_tool_call_input.done"
    /\ final' = [final EXCEPT !.custom_tool_calls =
                    Append(@, CustomToolCallRecord(Get(ev.raw, "item_id", NoneStr),
                                                   Get(ev.raw, "output_index", NoneInt),
                                                   Get(ev.raw, "input", EmptyText)))]
    /\ UNCHANGED <<_msg, _rsn, _fn, _ct, sink>>
    /\ Take(ev)

\* mutant of UnknownOther: the unknown Delta is emitted without the raw object
UnknownOther_NoMeta(ev) ==
    /\ ev.cls = "UnknownEvent" /\ ev.type \notin FallbackTags
    /\ sink' = Emit(Delta("unknown"))
    /\ UNCHANGED <<final, _msg, _rsn, _fn, _ct>>
    /\ Take(ev)

\* case _ of the inner match: any other tag
UnknownOther(ev) ==
    /\ ev.cls = "UnknownEvent" /\ ev.type \notin FallbackTags
    /\ sink' = Emit([Delta("unknown") EXCEPT !.meta = ev.raw])
    /\ UNCHANGED <<final, _msg, _rsn, _fn, _ct>>
    /\ Take(ev)

\* the byte stream ends: the loop ends and stream_from returns self.final
StreamEnd ==
    /\ agg_pc = "streaming"
    /\ agg_pc' = "returned"
    /\ UNCHANGED <<final, _msg, _rsn, _fn, _ct, on_delta, sink, events, pending, agentVars, srvVars, decVars>>

\* ------------------------------------------------------------------ the endpoint
\* What the decoder can yield: every event kind of models.py over the small value sets.
Usage == [total_tokens |-> 7]
Event(cls, id) == [cls |-> cls, item_id |-> id, output_index |-> OutputIndexOf(id)]

CreatedEvents == {[cls |-> "ResponseCreated", response |-> ResponseCore("in_progress", <<>>, NoneRec)]}
InProgressEvents == {[cls |-> "ResponseInProgress", response |-> ResponseCore("in_progress", <<>>, NoneRec)]}
AddedEvents(its) ==
    {[cls |-> "ResponseOutputItemAdded", output_index |-> OutputIndexOf(it.id), item |-> it] : it \in its}
ItemDoneEvents(its) ==
    {[cls |-> "ResponseOutputItemDone", output_index |-> OutputIndexOf(it.id), item |-> it] : it \in its}
ContentPartAddedEvents(ids, cis) ==
    {[cls |-> "ResponseContentPartAdded", item_id |-> id, output_index |-> OutputIndexOf(id),
      content_index |-> ci] : id \in ids, ci \in cis}
TextDeltaEvents(ids, cis) ==
    {[cls |-> "ResponseOutputTextDelta", item_id |-> id, output_index |-> OutputIndexOf(id),
      content_index |-> ci, delta |-> f] : id \in ids, ci \in cis, f \in Frags}
IgnoredEvents == {Event(c, "x") : c \in IgnoredClasses}
ReasoningDeltaEvents(ids, sis) ==
    {[cls |-> "ResponseReasoningSummaryTextDelta", item_id |-> id,
      output_index |-> OutputIndexOf(id), summary_index |-> si, delta |-> f] :
        id \in ids, si \in sis, f \in Frags}
ReasoningDoneEvents ==
    {[cls |-> "ResponseReasoningSummaryTextDone", item_id |-> "x", output_index |-> 0,
      summary_index |-> 0, text |-> f] : f \in Frags}

\* argument strings: the two halves of "{}" as fragments; whole strings that are an
\* object, not JSON at all, and JSON that is no object
ArgFrags == {<<"{">>, <<"}">>}
ArgStrings == {<<"{", "}">>, <<"{">>, <<"1">>}
FunctionDeltaEvents(ids) ==
    {[cls |-> "ResponseFunctionCallArgumentsDelta", item_id |-> id,
      output_index |-> OutputIndexOf(id), delta |-> f] : id \in ids, f \in ArgFrags}
FunctionDoneEvents(ids, args) ==
    {[cls |-> "ResponseFunctionCallArgumentsDone", item_id |-> id,
      output_index |-> OutputIndexOf(id), arguments |-> a] : id \in ids, a \in args}
CustomDeltaEvents(ids) ==
    {[cls |-> "ResponseCustomToolCallInputDelta", item_id |-> id,
      output_index |-> OutputIndexOf(id), delta |-> f] : id \in ids, f \in Frags}
CustomDoneEvents(ids, inputs) ==
    {[cls |-> "ResponseCustomToolCallInputDone", item_id |-> id,
      output_index |-> OutputIndexOf(id), input |-> f] : id \in ids, f \in inputs}
CompletedEvents(outputs) ==
    {[cls |-> "ResponseCompleted", response |-> ResponseCore("completed", out, Usage)] :
        out \in outputs}

\* UnknownEvent: the raw object of a frame the typed decoder refused.  A fallback tag
\* reaches the decoder's except branch only with a field missing or mistyped: here
\* the raw object lacks sequence_number, and may lack item_id and the payload too.
Unknown(tag, raw) == [cls |-> "UnknownEvent", type |-> tag, raw |-> raw]
RawObjects(tag, key, payloads) ==
    {[type |-> tag]}
    \cup {[j \in {"type", "item_id", "output_index", key} |->
            CASE j = "type" -> tag
              [] j = "item_id" -> "x"
              [] j = "output_index" -> 0
              [] OTHER -> p] : p \in payloads}
UnknownFunctionDeltaEvents ==
    {Unknown("response.function_call_arguments.delta", r) :
        r \in RawObjects("response.function_call_arguments.delta", "delta", {<<"{">>})}
UnknownFunctionDoneEvents ==
    {Unknown("response.function_call_arguments.done", r) :
        r \in RawObjects("response.function_call_arguments.done", "arguments", {<<"{", "}">>})}
UnknownCustomDeltaEvents ==
    {Unknown("response.custom_tool_call_input.delta", r) :
        r \in RawObjects("response.custom_tool_call_input.delta", "delta", {<<"a">>})}
UnknownCustomDoneEvents ==
    {Unknown("response.custom_tool_call_input.done", r) :
        r \in RawObjects("response.custom_tool_call_input.done", "input", {<<"a">>})}
\* an unrecognized tag, a recognized tag whose fields do not validate, and no tag
\* at all (data.get("type", "unknown"))
UnknownOtherEvents ==
    {Unknown("response.audio.delta", [type |-> "response.audio.delta", item_id |-> "x"]),
     Unknown("response.output_text.delta", [type |-> "response.output_text.delta", item_id |-> "x"]),
     Unknown("unknown", [item_id |-> "x"])}

\* the items of the scripted turns
MessageX == Item("message", "x", "code_exec")
FunctionX == Item("function_call", "x", "code_exec")
CustomY == Item("custom_tool_call", "y", "code_exec")

\* ------------------------------------------------------------------ SpecAgg
\* One aggregator over one response body of at most MaxEvents events of any kind.
AggInit ==
    /\ final = AggregatedResponse
    /\ _msg = EmptyDict /\ _rsn = EmptyDict /\ _fn = EmptyDict /\ _ct = EmptyDict
    /\ sink = <<>>
    /\ events = <<>>
    /\ pending = {}

DecoderIdle ==
    /\ _buffer = <<>> /\ _cur_event = NoneText /\ _cur_data_lines = <<>>
    /\ received = <<>> /\ dec_pc = "idle"

ServerIdle ==
    /\ SESSIONS = NoneStr /\ STORE = <<>> /\ agents = EmptyDict /\ req = EmptyDict

AgentIdle ==
    /\ items = <<>> /\ pc = "idle" /\ start_len = 0 /\ turn = 0 /\ turn_base = 0
    /\ calls = 0 /\ cursor = 0 /\ ret = NoneRec /\ error = NoneStr /\ resp_status = 0

InitAgg ==
    /\ AggInit
    /\ on_delta = "sink"
    /\ agg_pc = "streaming"
    /\ AgentIdle
    /\ ServerIdle
    /\ DecoderIdle

More == Len(events) < MaxEvents

NextAgg ==
    \/ \E ev \in CreatedEvents : More /\ ResponseCreated(ev)
    \/ \E ev \in InProgressEvents : More /\ ResponseInProgress(ev)
    \/ \E ev \in AddedEvents(Items) : More /\ ResponseOutputItemAdded(ev)
    \/ \E ev \in ContentPartAddedEvents(ItemIds, {0}) : More /\ ResponseContentPartAdded(ev)
    \/ \E ev \in TextDeltaEvents(ItemIds, {0}) : More /\ ResponseOutputTextDelta(ev)
    \/ \E ev \in IgnoredEvents : More /\ Ignored(ev)
    \/ \E ev \in ReasoningDeltaEvents({"x"}, {0}) : More /\ ResponseReasoningSummaryTextDelta(ev)
    \/ \E ev \in ReasoningDoneEvents : More /\ ResponseReasoningSummaryTextDone(ev)
    \/ \E ev \in FunctionDeltaEvents(ItemIds) : More /\ ResponseFunctionCallArgumentsDelta(ev)
    \/ \E ev \in FunctionDoneEvents({"x"}, ArgStrings) : More /\ ResponseFunctionCallArgumentsDone(ev)
    \/ \E ev \in CustomDeltaEvents(ItemIds) : More /\ ResponseCustomToolCallInputDelta(ev)
    \/ \E ev \in CustomDoneEvents({"x"}, Frags) : More /\ ResponseCustomToolCallInputDone(ev)
    \/ \E ev \in ItemDoneEvents(MessageItems) : More /\ ResponseOutputItemDone(ev)
    \/ \E ev \in CompletedEvents({<<>>}) : More /\ ResponseCompleted(ev)
    \/ \E ev \in UnknownFunctionDeltaEvents : More /\ UnknownFunctionCallArgumentsDelta(ev)
    \/ \E ev \in UnknownFunctionDoneEvents : More /\ UnknownFunctionCallArgumentsDone(ev)
    \/ \E ev \in UnknownCustomDeltaEvents : More /\ UnknownCustomToolCallInputDelta(ev)
    \/ \E ev \in UnknownCustomDoneEvents : More /\ UnknownCustomToolCallInputDone(ev)
    \/ \E ev \in UnknownOtherEvents : More /\ UnknownOther(ev)
    \/ StreamEnd

SpecAgg == InitAgg /\ [][NextAgg]_vars

\* ------------------------------------------------------------------ SpecText
\* One aggregator over one response body of at most MaxTextEvents message events.
MoreText == Len(events) < MaxTextEvents

NextText ==
    \/ \E ev \in AddedEvents(MessageItems) : MoreText /\ ResponseOutputItemAdded(ev)
    \/ \E ev \in TextDeltaEvents(ItemIds, ContentIndexes) : MoreText /\ ResponseOutputTextDelta(ev)
    \/ \E ev \in CompletedEvents({<<>>}) : MoreText /\ ResponseCompleted(ev)
    \/ StreamEnd

SpecText == InitAgg /\ [][NextText]_vars

\* ------------------------------------------------------------------ SSEDecoder
\* Text is a sequence of characters, a chunk a sequence of bytes.  An ASCII byte is
\* written as its character; "C3" "A9" are the two bytes of U+00E9.
\* chunk.decode("utf-8", errors="replace"): a lead byte without its continuation
\* and a continuation byte without its lead become U+FFFD.
RECURSIVE Utf8Decode(_)
Utf8Decode(bs) ==
    IF bs = <<>> THEN <<>>
    ELSE IF bs[1] = "C3" /\ Len(bs) >= 2 /\ bs[2] = "A9"
    THEN <<"U+00E9">> \o Utf8Decode(SubSeq(bs, 3, Len(bs)))
    ELSE IF bs[1] \in {"C3", "A9"}
    THEN <<"U+FFFD">> \o Utf8Decode(Tail(bs))
    ELSE <<bs[1]>> \o Utf8Decode(Tail(bs))

\* self._buffer.find("\n"): the position of the first newline, 0 for -1
Find(buf) ==
    IF \E i \in 1..Len(buf) : buf[i] = "\n"
    THEN CHOOSE i \in 1..Len(buf) : buf[i] = "\n" /\ \A j \in 1..(i - 1) : buf[j] # "\n"
    ELSE 0

\* str.strip(), str.lstrip(), str.startswith(), "\n".join()
Whitespace == {" ", "\n", "\r", "\t"}
RECURSIVE LStrip(_)
LStrip(t) == IF t # <<>> /\ Head(t) \in Whitespace THEN LStrip(Tail(t)) ELSE t
RECURSIVE RStrip(_)
RStrip(t) ==
    IF t # <<>> /\ t[Len(t)] \in Whitespace THEN RStrip(SubSeq(t, 1, Len(t) - 1)) ELSE t
Strip(t) == RStrip(LStrip(t))
StartsWith(t, prefix) == Len(t) >= Len(prefix) /\ SubSeq(t, 1, Len(prefix)) = prefix
After(t, prefix) == SubSeq(t, Len(prefix) + 1, Len(t))
RECURSIVE Join(_)
Join(ls) ==
    IF ls = <<>> THEN <<>>
    ELSE IF Len(ls) = 1 THEN ls[1]
    ELSE ls[1] \o <<"\n">> \o Join(Tail(ls))

EventField == <<"e", "v", "e", "n", "t", ":">>
DataField == <<"d", "a", "t", "a", ":">>

\* The payloads of the model.  The members of an object are one character naming
\* what the object is: "c" response.created, "m" response.output_item.added of
\* message x, "t" response.output_text.delta of x, "z" response.completed, each
\* with the fields of its variant; "u" an object whose type no variant has, "T" an
\* object of type response.output_text.delta without the fields of the variant,
\* "n" an object without type.  JSON allows whitespace around the braces.  "t"
\* followed by characters that are not ASCII is the response.output_text.delta
\* of x whose delta is those characters.
TypedKinds == {"c", "m", "t", "z"}
RawKinds == {"u", "T", "n"}
TextChars == {"U+00E9", "U+FFFD"}
Tokens(t) == SelectSeq(t, LAMBDA ch : ch \notin Whitespace)
IsObjectOf(t, kinds) ==
    /\ Len(Tokens(t)) = 3
    /\ Tokens(t)[1] = "{" /\ Tokens(t)[2] \in kinds /\ Tokens(t)[3] = "}"
IsTextDelta(t) ==
    /\ Len(Tokens(t)) >= 4
    /\ Tokens(t)[1] = "{" /\ Tokens(t)[2] = "t" /\ Tokens(t)[Len(Tokens(t))] = "}"
    /\ \A i \in 3..(Len(Tokens(t)) - 1) : Tokens(t)[i] \in TextChars
TextDeltaOf(t) ==
    [cls |-> "ResponseOutputTextDelta", item_id |-> "x", output_index |-> 0,
     content_index |-> 0, delta |-> SubSeq(Tokens(t), 3, Len(Tokens(t)) - 1)]
RawOf(k) ==
    CASE k = "u" -> [type |-> "response.audio.delta", item_id |-> "x"]
      [] k = "T" -> [type |-> "response.output_text.delta", item_id |-> "x"]
      [] OTHER -> [item_id |-> "x"]
EventOf(k) ==
    CASE k = "c" -> CHOOSE ev \in CreatedEvents : TRUE
      [] k = "m" -> CHOOSE ev \in AddedEvents({MessageX}) : TRUE
      [] k = "t" -> CHOOSE ev \in TextDeltaEvents({"x"}, {0}) : ev.delta = <<"a">>
      [] OTHER -> CHOOSE ev \in CompletedEvents({<<>>}) : TRUE

\* what json.loads accepts
IsJson(t) ==
    \/ IsObjectOf(t, TypedKinds \cup RawKinds)
    \/ IsTextDelta(t)
    \/ Tokens(t) = <<"{", "}">>
    \/ JsonIsNumber(Strip(t))

\* mutant of DecodeFrame: a payload that is not JSON is handed on as an UnknownEvent
DecodeFrame_Lenient(data_str) ==
    IF IsObjectOf(data_str, TypedKinds)
    THEN [outcome |-> "yield", ev |-> EventOf(Tokens(data_str)[2])]
    ELSE IF IsTextDelta(data_str)
    THEN [outcome |-> "yield", ev |-> TextDeltaOf(data_str)]
    ELSE IF IsObjectOf(data_str, RawKinds)
    THEN [outcome |-> "yield",
          ev |-> Unknown(Get(RawOf(Tokens(data_str)[2]), "type", "unknown"),
                         RawOf(Tokens(data_str)[2]))]
    ELSE [outcome |-> "yield", ev |-> Unknown("unknown", [item_id |-> "x"])]

\* try: yield self._decoder.decode(data_str)
\* except msgspec.DecodeError:
\*     data = json.loads(data_str); yield UnknownEvent(type=data.get("type", "unknown"), ...)
\* json.loads raises JSONDecodeError for what is not JSON; a JSON value that is no
\* object has no get.
DecodeFrame(data_str) ==
    IF IsObjectOf(data_str, TypedKinds)
    THEN [outcome |-> "yield", ev |-> EventOf(Tokens(data_str)[2])]
    ELSE IF IsTextDelta(data_str)
    THEN [outcome |-> "yield", ev |-> TextDeltaOf(data_str)]
    ELSE IF IsObjectOf(data_str, RawKinds)
    THEN [outcome |-> "yield",
          ev |-> Unknown(Get(RawOf(Tokens(data_str)[2]), "type", "unknown"),
                         RawOf(Tokens(data_str)[2]))]
    ELSE IF Tokens(data_str) = <<"{", "}">>
    THEN [outcome |-> "yield", ev |-> Unknown("unknown", EmptyDict)]
    ELSE IF JsonIsNumber(Strip(data_str))
    THEN [outcome |-> "AttributeError", ev |-> NoneRec]
    ELSE [outcome |-> "JSONDecodeError", ev |-> NoneRec]

\* async for chunk in byte_iter: text = chunk.decode(...); self._buffer += text
Chunk(c) ==
    /\ dec_pc = "reading" /\ agg_pc = "streaming"
    /\ Len(received) < MaxChunks
    /\ received' = Append(received, c)
    /\ _buffer' = _buffer \o Utf8Decode(c)
    /\ dec_pc' = "lines"
    /\ UNCHANGED <<_cur_event, _cur_data_lines, aggVars, agentVars, srvVars>>

\* nl == -1: break, and the next chunk is awaited
NoLine ==
    /\ dec_pc = "lines" /\ agg_pc = "streaming"
    /\ Find(_buffer) = 0
    /\ dec_pc' = "reading"
    /\ UNCHANGED <<_buffer, _cur_event, _cur_data_lines, received, aggVars, agentVars, srvVars>>

\* mutant of DataLines: an event field is kept as a data line
DataLines_EventAsData(ls, line) ==
    IF StartsWith(line, DataField) THEN Append(ls, LStrip(After(line, DataField)))
    ELSE IF StartsWith(line, <<":">>) THEN ls
    ELSE Append(ls, line)

\* the data lines after a line that is not blank: an event field and a comment
\* add nothing, a data field adds its value, any other line is added whole
DataLines(ls, line) ==
    IF StartsWith(line, EventField) THEN ls
    ELSE IF StartsWith(line, DataField) THEN Append(ls, LStrip(After(line, DataField)))
    ELSE IF StartsWith(line, <<":">>) THEN ls
    ELSE Append(ls, line)

NextLine == SubSeq(_buffer, 1, Find(_buffer) - 1)
AgentRest == <<items, pc, start_len, turn, turn_base, calls, cursor, ret, resp_status>>
AggRest == <<final, _msg, _rsn, _fn, _ct, on_delta, sink, events, pending>>

\* one pass of the while loop with a line in the buffer: a blank line ends the
\* frame (its payload is decoded and yielded, or the decoding raises out of
\* iter_events and stream_from), any other line is a field or a comment
Line ==
    /\ dec_pc = "lines" /\ agg_pc = "streaming"
    /\ Find(_buffer) > 0
    /\ _buffer' = SubSeq(_buffer, Find(_buffer) + 1, Len(_buffer))
    /\ LET line == NextLine
           frame == DecodeFrame(Join(_cur_data_lines))
       IN  IF Strip(line) = <<>>
           THEN IF _cur_data_lines = <<>>
                THEN /\ _cur_event' = NoneText /\ _cur_data_lines' = <<>>
                     /\ dec_pc' = "lines"
                     /\ UNCHANGED <<agg_pc, error>>
                ELSE IF frame.outcome = "yield"
                THEN /\ dec_pc' = "yield"
                     /\ UNCHANGED <<_cur_event, _cur_data_lines, agg_pc, error>>
                ELSE /\ dec_pc' = "raised" /\ agg_pc' = "raised"
                     /\ error' = frame.outcome
                     /\ UNCHANGED <<_cur_event, _cur_data_lines>>
           ELSE /\ _cur_event' = IF StartsWith(line, EventField)
                                 THEN Strip(After(line, EventField)) ELSE _cur_event
                /\ _cur_data_lines' = DataLines(_cur_data_lines, line)
                /\ dec_pc' = "lines"
                /\ UNCHANGED <<agg_pc, error>>
    /\ UNCHANGED <<received, AggRest, AgentRest, srvVars>>

\* the event iter_events is suspended on
Yielded == DecodeFrame(Join(_cur_data_lines)).ev

\* the body of `async for ev in decoder.iter_events(byte_iter)` for the yielded event
Dispatch(ev) ==
    \/ ResponseCreated(ev)
    \/ ResponseOutputItemAdded(ev)
    \/ ResponseOutputTextDelta(ev)
    \/ ResponseCompleted(ev)
    \/ UnknownOther(ev)

\* mutant of BodyEnd: what is left in the buffer is taken as a last line
BodyEnd_Flush ==
    /\ dec_pc = "reading" /\ agg_pc = "streaming"
    /\ IF _buffer = <<>>
       THEN /\ dec_pc' = "ended" /\ agg_pc' = "returned"
            /\ UNCHANGED _buffer
       ELSE /\ dec_pc' = "lines" /\ _buffer' = _buffer \o <<"\n">>
            /\ UNCHANGED agg_pc
    /\ UNCHANGED <<_cur_event, _cur_data_lines, received, AggRest, agentVars, srvVars>>

\* byte_iter is exhausted: the async for of iter_events ends, the generator
\* returns, the loop of stream_from ends and it returns self.final
BodyEnd ==
    /\ dec_pc = "reading" /\ agg_pc = "streaming"
    /\ dec_pc' = "ended" /\ agg_pc' = "returned"
    /\ UNCHANGED <<_buffer, _cur_event, _cur_data_lines, received, AggRest, agentVars, srvVars>>

\* ------------------------------------------------------------------ SpecDecoder
\* One response body delivered in at most MaxChunks chunks, decoded line by line
\* and aggregated frame by frame.  The chunks: whole frames, a data line without
\* its newline, a newline, the two lines of a payload sent on two lines, a
\* comment, an event field, a payload that is a number, the two halves of a frame
\* cut inside the two bytes of a character, a frame that is not JSON with a frame
\* behind it.
Chunks ==
    {DataField \o <<"{", "c", "}", "\n", "\n">>,
     DataField \o <<"{", "m", "}", "\n", "\n">>,
     DataField \o <<" ", "{", "t", "}", "\n", "\n">>,
     DataField \o <<"{", "z", "}", "\n", "\n">>,
     DataField \o <<"{", "c", "}">>,
     <<"\n">>,
     DataField \o <<"{", "\n">>,
     <<"u", "}", "\n">>,
     <<":", "k", "\n">>,
     EventField \o <<"x", "\n">>,
     DataField \o <<"7", "\n">>,
     DataField \o <<"{", "t", "C3">>,
     <<"A9", "}", "\n", "\n">>,
     DataField \o <<"{", "\n", "\n">> \o DataField \o <<"{", "c", "}", "\n", "\n">>}

InitDecoder ==
    /\ AggInit
    /\ on_delta = "sink"
    /\ agg_pc = "streaming"
    /\ AgentIdle
    /\ ServerIdle
    /\ _buffer = <<>> /\ _cur_event = NoneText /\ _cur_data_lines = <<>>
    /\ received = <<>> /\ dec_pc = "reading"

NextDecoder ==
    \/ \E c \in Chunks : Chunk(c)
    \/ NoLine
    \/ Line
    \/ dec_pc = "yield" /\ Dispatch(Yielded)
    \/ BodyEnd

SpecDecoder == InitDecoder /\ [][NextDecoder]_vars

\* ------------------------------------------------------------------ SpecScenario
\* The message stream of one reply: response.created, response.output_item.added
\* of message m1, up to MaxScenarioDeltas response.output_text.delta events whose
\* fragments are "He", "llo" or " world", response.output_item.done,
\* response.completed, and the end of the body.
M1 == [type |-> "message", id |-> "m1", name |-> NoneStr, call_id |-> NoneStr]
ScenarioFrags == {<<"H", "e">>, <<"l", "l", "o">>, <<" ", "w", "o", "r", "l", "d">>}
AddedM1 == [cls |-> "ResponseOutputItemAdded", output_index |-> 0, item |-> M1]
TextDeltaM1(f) ==
    [cls |-> "ResponseOutputTextDelta", item_id |-> "m1", output_index |-> 0,
     content_index |-> 0, delta |-> f]
DoneM1 == [cls |-> "ResponseOutputItemDone", output_index |-> 0, item |-> M1]
LastCls == IF events = <<>> THEN NoneStr ELSE events[Len(events)].cls
InDeltas == LastCls \in {"ResponseOutputItemAdded", "ResponseOutputTextDelta"}

NextScenario ==
    \/ \E ev \in CreatedEvents : events = <<>> /\ ResponseCreated(ev)
    \/ LastCls = "ResponseCreated" /\ ResponseOutputItemAdded(AddedM1)
    \/ \E f \in ScenarioFrags :
          /\ InDeltas /\ Len(events) < 2 + MaxScenarioDeltas
          /\ ResponseOutputTextDelta(TextDeltaM1(f))
    \/ InDeltas /\ ResponseOutputItemDone(DoneM1)
    \/ \E ev \in CompletedEvents({<<M1>>}) :
          LastCls = "ResponseOutputItemDone" /\ ResponseCompleted(ev)
    \/ LastCls = "ResponseCompleted" /\ StreamEnd

SpecScenario == InitAgg /\ [][NextScenario]_vars

\* ------------------------------------------------------------------ SpecCalls
\* The stream of function call x: its output_item.added or not, up to
\* MaxCallDeltas function_call_arguments.delta events of x and of the unregistered
\* y, then the function_call_arguments.done of x and the end of the body.  The
\* fragments are pieces of "{}" and of numbers; the done strings are an object,
\* numbers, and text that is not JSON.
CallFrags == {<<"{">>, <<"}">>, <<"1">>}
CallStrings == {<<"{", "}">>, <<"1">>, <<"1", "1">>, <<"{">>}
CallDeltaEvents ==
    {[cls |-> "ResponseFunctionCallArgumentsDelta", item_id |-> id,
      output_index |-> OutputIndexOf(id), delta |-> f] : id \in ItemIds, f \in CallFrags}
CallDeltas == SelectSeq(events, LAMBDA ev : ev.cls = "ResponseFunctionCallArgumentsDelta")
BeforeDone == LastCls \in {NoneStr, "ResponseOutputItemAdded", "ResponseFunctionCallArgumentsDelta"}

NextCalls ==
    \/ \E ev \in AddedEvents({FunctionX}) : events = <<>> /\ ResponseOutputItemAdded(ev)
    \/ \E ev \in CallDeltaEvents :
          /\ BeforeDone /\ Len(CallDeltas) < MaxCallDeltas
          /\ ResponseFunctionCallArgumentsDelta(ev)
    \/ \E ev \in FunctionDoneEvents({"x"}, CallStrings) :
          BeforeDone /\ ResponseFunctionCallArgumentsDone(ev)
    \/ LastCls = "ResponseFunctionCallArgumentsDone" /\ StreamEnd

SpecCalls == InitAgg /\ [][NextCalls]_vars

\* ------------------------------------------------------------------ SpecSink
\* One aggregator whose sink is a plain callable or a coroutine function (as the
\* server's emit is); the awaitable of a sink invocation finishes in a step of
\* its own.
InitSink ==
    /\ AggInit
    /\ on_delta \in {"sink", "async_sink"}
    /\ agg_pc = "streaming"
    /\ AgentIdle
    /\ ServerIdle
    /\ DecoderIdle

NextSink ==
    \/ \E ev \in CreatedEvents : More /\ ResponseCreated(ev)
    \/ \E ev \in AddedEvents({MessageX, FunctionX}) : More /\ ResponseOutputItemAdded(ev)
    \/ \E ev \in TextDeltaEvents({"x"}, {0}) : More /\ ResponseOutputTextDelta(ev)
    \/ \E ev \in FunctionDoneEvents({"x"}, {<<"{", "}">>}) : More /\ ResponseFunctionCallArgumentsDone(ev)
    \/ \E ev \in CompletedEvents({<<>>}) : More /\ ResponseCompleted(ev)
    \/ \E i \in pending : SinkDone(i)
    \/ StreamEnd

SpecSink == InitSink /\ [][NextSink]_vars

\* ------------------------------------------------------------------ agent.py
\* self.tools: the registry gather_tools builds from glial/tools/*.py
Tools == {"code_exec"}
Prompts == {"hi"}
UserItem(prompt) == [role |-> "user", content |-> prompt]
AgentAggVars == <<final, _msg, _rsn, _fn, _ct, sink, events, pending, agg_pc>>

\* mutant of Invoke: an invocation that follows a failed one starts the
\* conversation afresh
Invoke_FreshAfterError(prompt) ==
    /\ pc \in {"idle", "returned", "raised"}
    /\ calls' = calls + 1
    /\ start_len' = IF pc = "raised" THEN 0 ELSE Len(items)
    /\ items' = IF pc = "raised" THEN <<UserItem(prompt)>> ELSE Append(items, UserItem(prompt))
    /\ pc' = "post"
    /\ turn' = 0 /\ turn_base' = 0 /\ cursor' = 0
    /\ ret' = NoneRec /\ error' = NoneStr /\ resp_status' = 0
    /\ UNCHANGED <<aggVars, srvVars, decVars>>

\* __call__ up to the loop: start_len = len(self.items); self.items.append(user item).
\* The caller starts an invocation when the previous one has returned or raised.
Invoke(prompt) ==
    /\ pc \in {"idle", "returned", "raised"}
    /\ calls' = calls + 1
    /\ start_len' = Len(items)
    /\ items' = Append(items, UserItem(prompt))
    /\ pc' = "post"
    /\ turn' = 0 /\ turn_base' = 0 /\ cursor' = 0
    /\ ret' = NoneRec /\ error' = NoneStr /\ resp_status' = 0
    /\ UNCHANGED <<aggVars, srvVars, decVars>>

\* mutant of OnStatus: the status is not looked at
OnStatus_Ignored(st) == "streaming"

\* if resp.status >= 400: log the body; resp.raise_for_status()
OnStatus(st) == IF st >= 400 THEN "raised" ELSE "streaming"

\* async with self.session.post(...) as resp: a status >= 400 is logged and
\* raise_for_status() raises; otherwise stream_response builds a new
\* ResponseAggregator over the body
Post(st) ==
    /\ pc = "post"
    /\ turn < MaxTurns
    /\ turn' = turn + 1
    /\ turn_base' = Len(items)
    /\ resp_status' = st
    /\ IF OnStatus(st) = "raised"
       THEN /\ pc' = "raised" /\ error' = "ClientResponseError"
            /\ UNCHANGED AgentAggVars
       ELSE /\ pc' = "streaming" /\ error' = error
            /\ final' = AggregatedResponse
            /\ _msg' = EmptyDict /\ _rsn' = EmptyDict /\ _fn' = EmptyDict /\ _ct' = EmptyDict
            /\ events' = <<>> /\ pending' = {}
            /\ agg_pc' = "streaming"
            /\ sink' = sink
    /\ UNCHANGED <<items, start_len, calls, cursor, ret, on_delta, srvVars, decVars>>

\* mutant of NextStep: only function calls keep the loop going
NextStep_FunctionCallsOnly(fin) ==
    IF fin.function_calls # <<>> THEN "function_calls" ELSE "returned"

\* if final.function_calls: ... elif final.custom_tool_calls: ... else: return
NextStep(fin) ==
    IF fin.function_calls # <<>> THEN "function_calls"
    ELSE IF fin.custom_tool_calls # <<>> THEN "custom_tool_calls"
    ELSE "returned"

\* mutant of Slice: the slice starts after the user item
Slice_AfterUser(its, n) == SubSeq(its, n + 2, Len(its))

\* new_items = self.items[start_len:]
Slice(its, n) == SubSeq(its, n + 1, Len(its))

\* total = final.usage.get("total_tokens") under try/except
TotalTokens(fin) == Get(fin.usage, "total_tokens", NoneInt)

\* stream_response has returned: `for item in final.snapshot.output` appends the
\* output items (final.snapshot is None when no response.completed was decoded:
\* the attribute access raises), then the branch on the calls of the turn
Collect ==
    /\ pc = "streaming" /\ agg_pc = "returned"
    /\ IF final.snapshot = NoneRec
       THEN /\ pc' = "raised" /\ error' = "AttributeError"
            /\ UNCHANGED <<items, cursor, ret>>
       ELSE /\ items' = items \o final.snapshot.output
            /\ pc' = NextStep(final)
            /\ cursor' = IF NextStep(final) = "returned" THEN cursor ELSE 1
            /\ ret' = IF NextStep(final) = "returned"
                      THEN [total_tokens |-> TotalTokens(final),
                            new_items |-> Slice(items', start_len)]
                      ELSE ret
            /\ error' = error
    /\ UNCHANGED <<start_len, turn, turn_base, calls, resp_status, aggVars, srvVars, decVars>>

\* mutant of AfterCall: the end of a tool loop leaves the turn loop
AfterCall_Break(n) == IF cursor = n THEN "idle" ELSE pc

\* the end of a tool loop starts the next turn
AfterCall(n) == IF cursor = n THEN "post" ELSE pc

\* one pass of `for fc in final.function_calls`: self.tools[fc["name"]] raises
\* KeyError for a name not in the registry, func(**kwargs) raises TypeError when
\* the arguments are no mapping, the callable returns or raises
FunctionCall(outcome) ==
    /\ pc = "function_calls"
    /\ LET fc == final.function_calls[cursor]
       IN  IF fc.name \notin Tools
           THEN /\ pc' = "raised" /\ error' = "KeyError"
                /\ UNCHANGED <<items, cursor>>
           ELSE IF fc.arguments.t # "dict"
           THEN /\ pc' = "raised" /\ error' = "TypeError"
                /\ UNCHANGED <<items, cursor>>
           ELSE IF outcome = "raise"
           THEN /\ pc' = "raised" /\ error' = "ToolError"
                /\ UNCHANGED <<items, cursor>>
           ELSE /\ items' = Append(items, [type |-> "function_call_output",
                                           call_id |-> fc.call_id, output |-> outcome])
                /\ cursor' = cursor + 1
                /\ pc' = AfterCall(Len(final.function_calls))
                /\ error' = error
    /\ UNCHANGED <<start_len, turn, turn_base, calls, ret, resp_status, aggVars, srvVars, decVars>>

\* mutant of CustomToolCall: a failing call is given an empty output and the loop
\* goes on
CustomToolCall_SwallowError(outcome) ==
    /\ pc = "custom_tool_calls"
    /\ LET ctc == final.custom_tool_calls[cursor]
           out == IF ctc.name \notin Tools \/ outcome = "raise" THEN "" ELSE outcome
       IN  /\ items' = Append(items, [type |-> "custom_tool_call_output",
                                      call_id |-> ctc.call_id, output |-> out])
           /\ cursor' = cursor + 1
           /\ pc' = AfterCall(Len(final.custom_tool_calls))
           /\ error' = error
    /\ UNCHANGED <<start_len, turn, turn_base, calls, ret, resp_status, aggVars, srvVars, decVars>>

\* one pass of `for ctc in final.custom_tool_calls`
CustomToolCall(outcome) ==
    /\ pc = "custom_tool_calls"
    /\ LET ctc == final.custom_tool_calls[cursor]
       IN  IF ctc.name \notin Tools
           THEN /\ pc' = "raised" /\ error' = "KeyError"
                /\ UNCHANGED <<items, cursor>>
           ELSE IF outcome = "raise"
           THEN /\ pc' = "raised" /\ error' = "ToolError"
                /\ UNCHANGED <<items, cursor>>
           ELSE /\ items' = Append(items, [type |-> "custom_tool_call_output",
                                           call_id |-> ctc.call_id, output |-> outcome])
                /\ cursor' = cursor + 1
                /\ pc' = AfterCall(Len(final.custom_tool_calls))
                /\ error' = error
    /\ UNCHANGED <<start_len, turn, turn_base, calls, ret, resp_status, aggVars, srvVars, decVars>>

\* ------------------------------------------------------------------ SpecAgent
\* Invocations of one Agent, one after the other, each turn's body aggregated
\* event by event.  The endpoint answers 200 or 500; a body is at most
\* MaxTurnEvents events and may end before response.completed.
InitAgent ==
    /\ AggInit
    /\ on_delta = NoneStr
    /\ agg_pc = "idle"
    /\ AgentIdle
    /\ ServerIdle
    /\ DecoderIdle

Outcomes == {"ok", "raise"}
MoreTurn == Len(events) < MaxTurnEvents

NextAgent ==
    \/ \E p \in Prompts : calls < Cardinality(Prompts) /\ Invoke(p)
    \/ \E st \in {200, 500} : Post(st)
    \/ \E ev \in AddedEvents({FunctionX, CustomY}) : MoreTurn /\ ResponseOutputItemAdded(ev)
    \/ \E ev \in FunctionDoneEvents({"x"}, {<<"{", "}">>}) : MoreTurn /\ ResponseFunctionCallArgumentsDone(ev)
    \/ \E ev \in CustomDoneEvents({"y"}, {<<"a">>}) : MoreTurn /\ ResponseCustomToolCallInputDone(ev)
    \/ \E ev \in CompletedEvents({<<>>, <<MessageX>>}) : MoreTurn /\ ResponseCompleted(ev)
    \/ StreamEnd
    \/ Collect
    \/ \E outcome \in Outcomes : FunctionCall(outcome)
    \/ \E outcome \in Outcomes : CustomToolCall(outcome)

SpecAgent == InitAgent /\ [][NextAgent]_vars

\* ------------------------------------------------------------------ SpecRuns
\* One invocation of one Agent for each prompt of RunPrompts, in that order, one
\* after the other, whatever way the earlier ones ended.  The Agent starts empty or seeded
\* with a stored conversation; the turns are custom tool calls and messages.
RunPrompts == <<"hi", "more">>

InitRuns ==
    /\ AggInit
    /\ on_delta = NoneStr
    /\ agg_pc = "idle"
    /\ items \in {<<>>, <<UserItem("hi"), MessageX>>}
    /\ pc = "idle" /\ start_len = 0 /\ turn = 0 /\ turn_base = 0
    /\ calls = 0 /\ cursor = 0 /\ ret = NoneRec /\ error = NoneStr /\ resp_status = 0
    /\ ServerIdle
    /\ DecoderIdle

NextRuns ==
    \/ calls < Len(RunPrompts) /\ Invoke(RunPrompts[calls + 1])
    \/ \E st \in {200, 500} : Post(st)
    \/ \E ev \in AddedEvents({CustomY}) : MoreTurn /\ ResponseOutputItemAdded(ev)
    \/ \E ev \in CustomDoneEvents({"y"}, {<<"a">>}) : MoreTurn /\ ResponseCustomToolCallInputDone(ev)
    \/ \E ev \in CompletedEvents({<<MessageX>>}) : MoreTurn /\ ResponseCompleted(ev)
    \/ StreamEnd
    \/ Collect
    \/ \E outcome \in Outcomes : CustomToolCall(outcome)

SpecRuns == InitRuns /\ [][NextRuns]_vars

\* ------------------------------------------------------------------ server.py
\* Conversation-scoped requests (stream_chat_conversation) of one conversation:
\* session_id = conv_id, so SESSIONS holds one entry.  A request's prompt is its
\* own name.  What the endpoint streams is drawn per turn: the Deltas one by one,
\* then how the body ends.
Requests == {"r1", "r2"}
NewRequest ==
    [pc |-> "new", agent |-> NoneStr, start_len |-> 0, turn |-> 0, on_delta |-> NoneStr,
     deltas |-> 0, client_open |-> TRUE, saw_any_stream |-> FALSE, saw_completed |-> FALSE,
     out |-> <<>>]
AssistantItem(t, r, n) == [type |-> t, by |-> r, turn |-> n]

\* await resp.prepare(request)
Prepare(r) ==
    /\ req[r].pc = "new"
    /\ req' = [req EXCEPT ![r].pc = "lookup"]
    /\ UNCHANGED <<SESSIONS, STORE, agents, aggVars, agentVars, decVars>>

\* Agent.__call__ from its first line to its first suspension, the POST
StartCall(rec, its) ==
    [rec EXCEPT !.start_len = Len(its), !.pc = "post", !.turn = 0]

\* agent = SESSIONS.get(session_id): None builds an Agent and suspends in
\* agent.__aenter__(); otherwise agent.on_delta = emit and agent(prompt) starts
GetOrCreate(r) ==
    /\ req[r].pc = "lookup"
    /\ IF SESSIONS = NoneStr
       THEN /\ agents' = Put(agents, r, [items |-> <<>>, on_delta |-> r])
            /\ req' = [req EXCEPT ![r].agent = r, ![r].pc = "aenter"]
       ELSE /\ agents' = [agents EXCEPT ![SESSIONS].on_delta = r,
                                        ![SESSIONS].items = Append(@, UserItem(r))]
            /\ req' = [req EXCEPT ![r] = StartCall([@ EXCEPT !.agent = SESSIONS],
                                                   agents[SESSIONS].items)]
    /\ UNCHANGED <<SESSIONS, STORE, aggVars, agentVars, decVars>>

\* __aenter__ is done: agent.items = STORE.get_items_for_agent(conv_id);
\* SESSIONS[session_id] = agent; agent(prompt) starts
Entered(r) ==
    /\ req[r].pc = "aenter"
    /\ agents' = [agents EXCEPT ![r].items = Append(STORE, UserItem(r))]
    /\ SESSIONS' = r
    /\ req' = [req EXCEPT ![r] = StartCall(@, STORE)]
    /\ UNCHANGED <<STORE, aggVars, agentVars, decVars>>

\* mutant of Failed: the error event is written whenever the client is open
Failed_Always(rec) ==
    [rec EXCEPT !.pc = "done",
                !.out = IF rec.client_open THEN Append(@, "error") ELSE @]

\* except Exception: an error event only if client_open and not saw_completed and
\* not saw_any_stream; finally write_eof
Failed(rec) ==
    [rec EXCEPT !.pc = "done",
                !.out = IF rec.client_open /\ ~rec.saw_completed /\ ~rec.saw_any_stream
                        THEN Append(@, "error") ELSE @]

\* the POST of a turn is answered: raise_for_status() raises for status >= 400,
\* otherwise stream_response(..., on_delta=self.on_delta) reads self.on_delta
SrvPost(r, status) ==
    /\ req[r].pc = "post"
    /\ req[r].turn < MaxTurns
    /\ req' = [req EXCEPT ![r] =
                 IF status >= 400
                 THEN Failed([@ EXCEPT !.turn = @ + 1])
                 ELSE [@ EXCEPT !.turn = @ + 1, !.pc = "streaming", !.deltas = 0,
                                !.on_delta = agents[req[r].agent].on_delta]]
    /\ UNCHANGED <<SESSIONS, STORE, agents, aggVars, agentVars, decVars>>

\* mutant of EmitTo: a closed client is written to again
EmitTo_Retry(rec, kind, written) ==
    IF written
    THEN [rec EXCEPT !.out = Append(@, kind), !.saw_any_stream = TRUE,
                     !.saw_completed = @ \/ kind = "completed"]
    ELSE [rec EXCEPT !.client_open = FALSE]

\* emit(d) of request c: nothing when the client is closed; the two writes succeed
\* (saw_any_stream, saw_completed) or fail (client_open = False)
EmitTo(rec, kind, written) ==
    IF ~rec.client_open THEN rec
    ELSE IF written
    THEN [rec EXCEPT !.out = Append(@, kind), !.saw_any_stream = TRUE,
                     !.saw_completed = @ \/ kind = "completed"]
    ELSE [rec EXCEPT !.client_open = FALSE]

\* the aggregator of r's turn calls its on_delta with a Delta
SrvDelta(r, kind, written) ==
    /\ req[r].pc = "streaming"
    /\ req[r].deltas < MaxDeltas
    /\ LET c == req[r].on_delta
       IN  req' = [req EXCEPT ![r].deltas = @ + 1, ![c] = EmitTo(@, kind, written)]
    /\ UNCHANGED <<SESSIONS, STORE, agents, aggVars, agentVars, decVars>>

\* new_items = self.items[start_len:]
NewItems(its, rec) == SubSeq(its, rec.start_len + 1, Len(its))

\* the body of r's turn has ended and stream_response returned: without
\* response.completed final.snapshot is None and __call__ raises; with calls the
\* output item and the tool outputs are appended and the next POST is sent; with
\* none __call__ returns, the new items are stored and the usage event is written
SrvStreamEnd(r, outcome, written) ==
    /\ req[r].pc = "streaming"
    /\ LET a == req[r].agent
           n == req[r].turn
           grown == IF outcome = "calls"
                    THEN agents[a].items \o <<AssistantItem("custom_tool_call", r, n),
                                              AssistantItem("custom_tool_call_output", r, n)>>
                    ELSE Append(agents[a].items, AssistantItem("message", r, n))
       IN  CASE outcome = "incomplete" ->
                 /\ req' = [req EXCEPT ![r] = Failed(@)]
                 /\ UNCHANGED <<agents, STORE>>
             [] outcome = "calls" ->
                 /\ agents' = [agents EXCEPT ![a].items = grown]
                 /\ req' = [req EXCEPT ![r].pc = "post"]
                 /\ UNCHANGED STORE
             [] OTHER ->
                 /\ agents' = [agents EXCEPT ![a].items = grown]
                 /\ STORE' = STORE \o NewItems(grown, req[r])
                 /\ req' = [req EXCEPT ![r] =
                              [EmitTo(@, "response.usage", written) EXCEPT !.pc = "done"]]
    /\ UNCHANGED <<SESSIONS, aggVars, agentVars, decVars>>

\* ------------------------------------------------------------------ SpecServer
InitServer ==
    /\ AggInit /\ on_delta = NoneStr /\ agg_pc = "idle"
    /\ AgentIdle /\ DecoderIdle
    /\ SESSIONS = NoneStr /\ STORE = <<>> /\ agents = EmptyDict
    /\ req = [r \in Requests |-> NewRequest]

NextServer ==
    \/ \E r \in Requests : Prepare(r)
    \/ \E r \in Requests : GetOrCreate(r)
    \/ \E r \in Requests : Entered(r)
    \/ \E r \in Requests, status \in {200, 500} : SrvPost(r, status)
    \/ \E r \in Requests, kind \in {"text", "completed"}, w \in BOOLEAN : SrvDelta(r, kind, w)
    \/ \E r \in Requests, o \in {"incomplete", "calls", "returned"}, w \in BOOLEAN :
          SrvStreamEnd(r, o, w)

SpecServer == InitServer /\ [][NextServer]_vars

InFlight(r) == req[r].pc \in {"post", "streaming"}

\* ------------------------------------------------------------------ reading a run
\* events and sink are the record of a run; these read it.
LastEvent == events[Len(events)]
Took == Len(events') = Len(events) + 1
Taken == events'[Len(events')]

FragmentDeltaClasses ==
    {"ResponseOutputTextDelta", "ResponseReasoningSummaryTextDelta",
     "ResponseFunctionCallArgumentsDelta", "ResponseCustomToolCallInputDelta"}
DoneTags == {"response.function_call_arguments.done", "response.custom_tool_call_input.done"}

\* the events the dispatch table gives a Delta
DeltaProducing(ev) ==
    \/ ev.cls \in {"ResponseCreated", "ResponseInProgress", "ResponseCompleted",
                   "ResponseOutputItemAdded", "ResponseOutputItemDone"}
    \/ ev.cls \in FragmentDeltaClasses
    \/ ev.cls = "UnknownEvent" /\ ev.type \notin DoneTags

KindOf(ev) ==
    CASE ev.cls \in {"ResponseCreated", "ResponseInProgress", "ResponseCompleted"} -> "response.status"
      [] ev.cls = "ResponseOutputItemAdded" -> "item.started"
      [] ev.cls = "ResponseOutputItemDone" -> "item.completed"
      [] ev.cls = "ResponseOutputTextDelta" -> "text"
      [] ev.cls = "ResponseReasoningSummaryTextDelta" -> "reasoning"
      [] ev.cls = "ResponseFunctionCallArgumentsDelta" -> "function.arguments"
      [] ev.cls = "ResponseCustomToolCallInputDelta" -> "custom.input"
      [] ev.cls = "UnknownEvent" /\ ev.type = "response.function_call_arguments.delta" -> "function.arguments"
      [] ev.cls = "UnknownEvent" /\ ev.type = "response.custom_tool_call_input.delta" -> "custom.input"
      [] OTHER -> "unknown"

ItemIdOf(ev) ==
    CASE ev.cls \in {"ResponseOutputItemAdded", "ResponseOutputItemDone"} -> ev.item.id
      [] ev.cls \in FragmentDeltaClasses -> ev.item_id
      [] ev.cls = "UnknownEvent" /\ ev.type \in FallbackTags -> Get(ev.raw, "item_id", NoneStr)
      [] OTHER -> NoneStr

FragmentOf(ev) ==
    CASE ev.cls \in FragmentDeltaClasses -> ev.delta
      [] ev.cls = "UnknownEvent" /\ ev.type \in FallbackTags -> Get(ev.raw, "delta", EmptyText)
      [] OTHER -> NoneText

StatusOf(ev) ==
    IF ev.cls \in {"ResponseCreated", "ResponseInProgress", "ResponseCompleted"}
    THEN ev.response.status ELSE NoneStr

\* the positions in events of the Delta-producing events, in order
ProducerIndexes ==
    SelectSeq([i \in 1..Len(events) |-> i], LAMBDA i : DeltaProducing(events[i]))

HasCompleted == \E i \in 1..Len(events) : events[i].cls = "ResponseCompleted"
AddedBefore(X, n) ==
    \E k \in 1..(n - 1) : events[k].cls = "ResponseOutputItemAdded" /\ events[k].item.id = X
StartedBefore(X, i) ==
    \E j \in 1..(i - 1) : sink[j].kind = "item.started" /\ sink[j].item_id = X

RegisteredIds == DOMAIN _msg \cup DOMAIN _rsn \cup DOMAIN _fn \cup DOMAIN _ct

TextDeltas == SelectSeq(sink, LAMBDA d : d.kind = "text")
TextDeltasOf(X) == SelectSeq(sink, LAMBDA d : d.kind = "text" /\ d.item_id = X)
Texts(ds) == Concat([i \in 1..Len(ds) |-> ds[i].text])

\* a stream as the endpoint sends it: every text delta after its item's
\* output_item.added, no item added twice, response.completed last and only there
WellFormedStream ==
    /\ events # <<>>
    /\ \A k \in 1..Len(events) :
        /\ events[k].cls = "ResponseCompleted" <=> k = Len(events)
        /\ events[k].cls = "ResponseOutputTextDelta" => AddedBefore(events[k].item_id, k)
        /\ events[k].cls = "ResponseOutputItemAdded" => ~AddedBefore(events[k].item.id, k)

\* ------------------------------------------------------------------ claims
\* C3 (as claimed): once response.completed has been processed, no later event of
\* the same stream changes the AggregatedResponse or any per-item state or
\* produces a Delta.
C3_CompletedIsTerminal ==
    [][HasCompleted =>
        /\ final' = final /\ sink' = sink
        /\ _msg' = _msg /\ _rsn' = _rsn /\ _fn' = _fn /\ _ct' = _ct]_vars

\* C4 (as claimed): when a well-formed stream has been aggregated, for every
\* message item X the concatenation of the text Deltas of X equals the output
\* text of the returned AggregatedResponse.
C4_PerItemTextEqualsFinal ==
    (agg_pc = "returned" /\ WellFormedStream) =>
        \A X \in DOMAIN _msg : Texts(TextDeltasOf(X)) = final.text

\* C4 (amended): the concatenation, in emission order, of the text fragments of
\* all text Deltas of the stream equals AggregatedResponse.text; it is the text of
\* item X when X is the only item the stream has text deltas for.
C4_AllTextEqualsFinal ==
    /\ Texts(TextDeltas) = final.text
    /\ \A X \in ItemIds :
         (\A i \in 1..Len(TextDeltas) : TextDeltas[i].item_id = X)
            => Texts(TextDeltasOf(X)) = final.text

C4_Witness ==
    /\ agg_pc = "returned" /\ WellFormedStream
    /\ DOMAIN _msg = ItemIds
    /\ \A X \in ItemIds : TextDeltasOf(X) # <<>>
    /\ Len(final.text) = 2

\* a fragment delta taken while its item id is in none of the four maps
UnregisteredFragment ==
    /\ Took
    /\ Taken.cls \in FragmentDeltaClasses
    /\ Taken.item_id \notin RegisteredIds

StateUnchanged == _msg' = _msg /\ _rsn' = _rsn /\ _fn' = _fn /\ _ct' = _ct

\* C7 (as claimed): a fragment delta for an unregistered item changes no per-item
\* state and no field of the AggregatedResponse, and forwards exactly one Delta.
C7_FragmentAccumulatedNowhere ==
    [][UnregisteredFragment =>
        /\ StateUnchanged
        /\ final' = final
        /\ Len(sink') = Len(sink) + 1]_vars

\* C7 (amended): a fragment delta for an unregistered item changes no per-item
\* state and forwards exactly one Delta of its kind with its fragment; no field
\* of the AggregatedResponse changes, except that output_text.delta still appends
\* its fragment to AggregatedResponse.text.
C7_FragmentLenient ==
    [][UnregisteredFragment =>
        /\ StateUnchanged
        /\ final' = IF Taken.cls = "ResponseOutputTextDelta"
                    THEN [final EXCEPT !.text = @ \o Taken.delta] ELSE final
        /\ Len(sink') = Len(sink) + 1
        /\ SubSeq(sink', 1, Len(sink)) = sink
        /\ sink'[Len(sink')].kind = KindOf(Taken)
        /\ sink'[Len(sink')].item_id = Taken.item_id
        /\ sink'[Len(sink')].text = Taken.delta
        /\ sink'[Len(sink')].name = NoneStr
        /\ sink'[Len(sink')].call_id = NoneStr]_vars

C7_Witness ==
    /\ events # <<>> /\ sink # <<>>
    /\ LastEvent.cls = "ResponseFunctionCallArgumentsDelta"
    /\ LastEvent.item_id \notin RegisteredIds
    /\ RegisteredIds # {}
    /\ sink[Len(sink)].kind = "function.arguments"
    /\ sink[Len(sink)].item_id = LastEvent.item_id

\* C8: the sink has received exactly one Delta per Delta-producing event, in the
\* order the events were decoded: the i-th Delta is the one of the i-th such event.
C8_OneDeltaPerEventInOrder ==
    /\ Len(sink) = Len(ProducerIndexes)
    /\ \A i \in 1..Len(sink) :
        LET ev == events[ProducerIndexes[i]]
        IN  /\ sink[i].kind = KindOf(ev)
            /\ sink[i].item_id = ItemIdOf(ev)
            /\ sink[i].text = FragmentOf(ev)
            /\ sink[i].status = StatusOf(ev)

C8_Witness ==
    /\ Len(events) = 3 /\ Len(sink) = 2
    /\ ~DeltaProducing(events[2])
    /\ sink[1].kind = "item.started" /\ sink[2].kind = "text"
    /\ sink[1].item_id = "y" /\ sink[2].item_id = "x"

\* C9 (as claimed): no Delta of item X precedes the item.started Delta of X,
\* unless no output_item.added event of the stream registers X.
C9_NoDeltaBeforeStarted ==
    \A i \in 1..Len(sink) :
        LET X == sink[i].item_id
        IN  (/\ X # NoneStr
             /\ sink[i].kind # "item.started"
             /\ AddedBefore(X, Len(events) + 1)) => StartedBefore(X, i)

\* C9 (amended): no Delta of item X precedes the item.started Delta of X, unless
\* no output_item.added event for X had been decoded before the Delta's event:
\* a Delta of X emitted once X has been added finds item.started of X in the sink.
C9_NoDeltaBeforeStartedOnceAdded ==
    [][(/\ Len(sink') = Len(sink) + 1
        /\ sink'[Len(sink')].item_id # NoneStr
        /\ sink'[Len(sink')].kind # "item.started"
        /\ AddedBefore(sink'[Len(sink')].item_id, Len(events) + 1))
       => /\ SubSeq(sink', 1, Len(sink)) = sink
          /\ StartedBefore(sink'[Len(sink')].item_id, Len(sink'))]_vars

C9_Witness ==
    /\ Len(sink) = 3
    /\ sink[1].kind = "text" /\ sink[1].item_id = "y"
    /\ sink[2].kind = "item.started" /\ sink[2].item_id = "x"
    /\ sink[3].kind = "text" /\ sink[3].item_id = "x"

\* C10: an UnknownEvent with an unrecognized tag yields exactly one unknown Delta
\* carrying the raw object, and changes no per-item state and no call or summary
\* list of the AggregatedResponse.
C10_UnknownTagOneDelta ==
    [][(Took /\ Taken.cls = "UnknownEvent" /\ Taken.type \notin FallbackTags) =>
        /\ sink' = Append(sink, [Delta("unknown") EXCEPT !.meta = Taken.raw])
        /\ StateUnchanged
        /\ final'.function_calls = final.function_calls
        /\ final'.custom_tool_calls = final.custom_tool_calls
        /\ final'.reasoning_summaries = final.reasoning_summaries]_vars

C10_Witness ==
    /\ Len(events) = 3 /\ Len(sink) = 2
    /\ LastEvent.cls = "UnknownEvent" /\ LastEvent.type = "response.audio.delta"
    /\ sink[2].kind = "unknown" /\ sink[2].meta = LastEvent.raw
    /\ DOMAIN _fn = {"x"}
    /\ Len(final.function_calls) = 1

\* the tail of self.items the current turn has appended
TurnItems == SubSeq(items, turn_base + 1, Len(items))
OutputsFor(type, call_id) ==
    {i \in 1..Len(TurnItems) : TurnItems[i].type = type /\ TurnItems[i].call_id = call_id}
CallsFor(cs, call_id) == {j \in 1..Len(cs) : cs[j].call_id = call_id}
CallIds == {CallIdOf(id) : id \in ItemIds} \cup {NoneStr}

\* C1 (as claimed): when the next HTTP request of an invocation is about to be
\* issued, the turn before it has appended exactly one output item per call of its
\* aggregated result, function calls and custom tool calls alike.
C1_OneOutputPerCall ==
    (pc = "post" /\ turn >= 1) =>
        \A c \in CallIds :
            /\ Cardinality(OutputsFor("function_call_output", c))
                 = Cardinality(CallsFor(final.function_calls, c))
            /\ Cardinality(OutputsFor("custom_tool_call_output", c))
                 = Cardinality(CallsFor(final.custom_tool_calls, c))

\* C2 (as claimed): when the body of a turn has ended before response.completed was
\* decoded, Agent.__call__ does not raise and self.items is as the turn found it.
C2_CleanStopOnDisconnect ==
    (turn >= 1 /\ agg_pc = "returned" /\ ~HasCompleted /\ pc # "streaming") =>
        /\ pc # "raised"
        /\ Len(items) = turn_base

\* C5: __call__ returns only after a turn without function calls and without
\* custom tool calls, with the items of that turn as the last ones of new_items;
\* and such a turn ends the invocation: the loop goes on to a tool loop or to the
\* next HTTP request only after a turn that has calls.
C5_ReturnsAfterCallFreeTurn ==
    /\ pc = "returned" =>
        /\ agg_pc = "returned"
        /\ final.function_calls = <<>> /\ final.custom_tool_calls = <<>>
        /\ ret.new_items = SubSeq(items, start_len + 1, Len(items))
    /\ (pc \in {"function_calls", "custom_tool_calls"} \/ (pc = "post" /\ turn >= 1)) =>
        (final.function_calls # <<>> \/ final.custom_tool_calls # <<>>)

C5_Witness ==
    /\ pc = "returned" /\ turn = 2
    /\ Len(ret.new_items) = 4

\* C6 (as claimed): no two in-flight agent(prompt) calls work on the same Agent.
C6_OneInvocationPerAgent ==
    \A r1, r2 \in Requests :
        (r1 # r2 /\ InFlight(r1) /\ InFlight(r2)) => req[r1].agent # req[r2].agent

\* C11: a sink invocation is run to completion before the aggregator goes on: at
\* most one invocation is in progress at any time, and while one is in progress
\* no event is taken, no state of the aggregator changes, the sink is not called
\* and stream_from does not return.
C11_SinkAwaitedBeforeNextEvent ==
    /\ [](Cardinality(pending) <= 1)
    /\ [](agg_pc = "returned" => pending = {})
    /\ [][pending # {} =>
            /\ events' = events /\ sink' = sink /\ final' = final
            /\ StateUnchanged]_vars

C11_Witness ==
    /\ on_delta = "async_sink"
    /\ Len(events) = 3 /\ Len(sink) = 2
    /\ pending = {2} /\ agg_pc = "awaiting"

\* C12: a request answered with a status >= 400 makes __call__ raise: the body is
\* not fed to the aggregator, no item is appended for that turn, and no further
\* request is issued by that invocation.
C12_ErrorStatusAborts ==
    /\ [](resp_status >= 400 => pc = "raised" /\ error = "ClientResponseError")
    /\ [][(turn' = turn + 1 /\ resp_status' >= 400) =>
            /\ items' = items
            /\ events' = events /\ sink' = sink /\ final' = final /\ agg_pc' = agg_pc]_vars
    /\ [][pc = "raised" => (turn' = turn /\ items' = items) \/ calls' = calls + 1]_vars

C12_Witness ==
    /\ resp_status = 500 /\ turn = 2 /\ pc = "raised"
    /\ Len(items) = 3 /\ Len(items) = turn_base

\* the tool outputs the current turn has appended
ToolOutputs ==
    SelectSeq(TurnItems,
              LAMBDA it : it.type \in {"function_call_output", "custom_tool_call_output"})
ToolErrors == {"KeyError", "TypeError", "ToolError"}
InToolLoop == pc \in {"function_calls", "custom_tool_calls"}
CurrentCall ==
    IF pc = "function_calls" THEN final.function_calls[cursor]
                             ELSE final.custom_tool_calls[cursor]

\* C13: a tool name that is not in the registry, or a tool callable that raises,
\* makes __call__ raise: the failing call gets no output item, the calls after it
\* are not dispatched (the turn has one output per call before it), and no
\* further request is issued by that invocation.
C13_ToolErrorPropagates ==
    /\ [][(InToolLoop /\ CurrentCall.name \notin Tools) =>
            pc' = "raised" /\ error' = "KeyError"]_vars
    /\ [][(InToolLoop /\ pc' = "raised") =>
            /\ error' \in ToolErrors
            /\ items' = items /\ cursor' = cursor /\ turn' = turn]_vars
    /\ [][InToolLoop =>
            \/ pc' = "raised"
            \/ items' = Append(items, items'[Len(items')]) /\ cursor' = cursor + 1]_vars
    /\ []((pc = "raised" /\ error \in ToolErrors) => Len(ToolOutputs) = cursor - 1)
    /\ [][pc = "raised" => (turn' = turn /\ items' = items) \/ calls' = calls + 1]_vars

\* the second custom tool call of a turn is the one that fails
C13_Witness ==
    /\ pc = "raised" /\ error \in {"KeyError", "ToolError"}
    /\ Len(final.custom_tool_calls) = 2 /\ cursor = 2
    /\ Len(ToolOutputs) = 1

\* the arguments string of a function_call_arguments.done event, typed or not
IsFunctionDone(ev) ==
    \/ ev.cls = "ResponseFunctionCallArgumentsDone"
    \/ ev.cls = "UnknownEvent" /\ ev.type = "response.function_call_arguments.done"
DoneArguments(ev) ==
    IF ev.cls = "UnknownEvent" THEN Get(ev.raw, "arguments", EmptyText) ELSE ev.arguments
DoneItemId(ev) ==
    IF ev.cls = "UnknownEvent" THEN Get(ev.raw, "item_id", NoneStr) ELSE ev.item_id

\* C14: a function_call_arguments.done event whose arguments string is not valid
\* JSON raises nothing and appends exactly one function-call record, whose
\* arguments field is the raw string.
C14_InvalidArgumentsKeptRaw ==
    [][(Took /\ IsFunctionDone(Taken) /\ ~JsonValid(DoneArguments(Taken))) =>
        /\ agg_pc' # "raised"
        /\ Len(final'.function_calls) = Len(final.function_calls) + 1
        /\ SubSeq(final'.function_calls, 1, Len(final.function_calls)) = final.function_calls
        /\ LET fc == final'.function_calls[Len(final'.function_calls)]
           IN  /\ fc.arguments = [t |-> "str", v |-> DoneArguments(Taken)]
               /\ fc.arguments_raw = DoneArguments(Taken)
               /\ fc.id = DoneItemId(Taken)]_vars

C14_Witness ==
    /\ events # <<>>
    /\ LastEvent.cls = "ResponseFunctionCallArgumentsDone"
    /\ LastEvent.arguments = <<"{">>
    /\ Len(final.function_calls) = 2
    /\ final.function_calls[2].arguments = [t |-> "str", v |-> <<"{">>]
    /\ final.function_calls[1].arguments.t = "dict"

IsPrefix(a, b) == Len(a) <= Len(b) /\ SubSeq(b, 1, Len(a)) = a

\* C16: self.items is append-only: every step of every invocation, the failing
\* ones included, leaves the list as it was or with items added at its end.
C16_ItemsAppendOnly == [][IsPrefix(items, items')]_vars

\* a second invocation has returned after a first one that raised before it
\* appended anything but its user item
C16_Witness ==
    /\ calls = 2 /\ pc = "returned"
    /\ start_len = 1
    /\ items[1] = UserItem("hi") /\ items[2] = UserItem("more")
    /\ Len(items) = 5 /\ items[4].type = "custom_tool_call_output"

\* the decoder is at the blank line that ends a frame whose payload is not JSON
InvalidFrame ==
    /\ dec_pc = "lines" /\ agg_pc = "streaming"
    /\ Find(_buffer) > 0 /\ Strip(NextLine) = <<>>
    /\ _cur_data_lines # <<>>
    /\ ~IsJson(Join(_cur_data_lines))

\* C17: a frame whose joined payload is not valid JSON is fatal: at its blank line
\* the JSONDecodeError leaves iter_events and stream_from, the frame yields no
\* event and no Delta, after the error no further line is read and no event is
\* decoded, and the Deltas delivered before stay delivered
C17_MalformedFrameIsFatal ==
    [][/\ InvalidFrame =>
            /\ dec_pc' = "raised" /\ agg_pc' = "raised"
            /\ error' = "JSONDecodeError"
            /\ events' = events /\ sink' = sink
       /\ dec_pc = "raised" =>
            /\ dec_pc' = "raised" /\ agg_pc' = "raised"
            /\ _buffer' = _buffer /\ events' = events
       /\ IsPrefix(sink, sink')]_vars

\* the error was raised with a Delta delivered before it and a whole frame behind it
C17_Witness ==
    /\ dec_pc = "raised" /\ agg_pc = "raised"
    /\ error = "JSONDecodeError"
    /\ Len(sink) >= 1
    /\ _buffer = DataField \o <<"{", "c", "}", "\n", "\n">>

\* C18: when the byte stream ends, the text buffered after the last newline is not
\* parsed: the end of the stream decodes no event, delivers no Delta, raises
\* nothing and leaves the buffer as it is; stream_from returns
C18_TrailingBufferNeverFlushed ==
    [][/\ (dec_pc = "reading" /\ received' = received /\ dec_pc' # dec_pc) =>
            /\ dec_pc' = "ended" /\ agg_pc' = "returned"
            /\ _buffer' = _buffer /\ _cur_data_lines' = _cur_data_lines
            /\ events' = events /\ sink' = sink /\ final' = final
            /\ error' = error
       /\ dec_pc = "ended" =>
            /\ dec_pc' = "ended" /\ agg_pc' = "returned"
            /\ events' = events /\ sink' = sink /\ error' = error]_vars

\* the stream ended with a whole data line without its newline in the buffer,
\* behind a frame that was decoded
C18_Witness ==
    /\ dec_pc = "ended" /\ agg_pc = "returned"
    /\ _buffer = DataField \o <<"{", "c", "}">>
    /\ Len(events) = 1
    /\ error = NoneStr

\* the fragments of the text deltas of the scripted stream, in order
ScenarioText == [i \in 1..(Len(events) - 4) |-> events[2 + i].delta]

\* C19: when the scripted message stream with n text deltas has been aggregated,
\* the sink holds exactly n + 4 Deltas in the order response.status, item.started,
\* n times text (each with the fragment of its event), item.completed,
\* response.status, and the returned text is the concatenation of the fragments
C19_MessageStreamDeltas ==
    agg_pc = "returned" =>
        LET n == Len(events) - 4
        IN  /\ Len(sink) = n + 4
            /\ sink[1].kind = "response.status"
            /\ sink[2].kind = "item.started" /\ sink[2].item_id = "m1"
            /\ \A i \in 1..n :
                 /\ sink[2 + i].kind = "text"
                 /\ sink[2 + i].text = events[2 + i].delta
            /\ sink[n + 3].kind = "item.completed"
            /\ sink[n + 4].kind = "response.status"
            /\ final.text = Concat(ScenarioText)

\* the stream with the fragments "He", "llo", " world": 7 Deltas, "Hello world"
C19_Witness ==
    /\ agg_pc = "returned"
    /\ ScenarioText = <<<<"H", "e">>, <<"l", "l", "o">>, <<" ", "w", "o", "r", "l", "d">>>>
    /\ [i \in 1..Len(sink) |-> sink[i].kind] =
         <<"response.status", "item.started", "text", "text", "text",
           "item.completed", "response.status">>
    /\ final.text = <<"H", "e", "l", "l", "o", " ", "w", "o", "r", "l", "d">>

\* the fragments accumulated for item X, and the fragments its delta events carried
Accumulated(X) == IF Has(_fn, X) THEN _fn[X].chunks ELSE <<>>
SentFor(X) ==
    LET ds == SelectSeq(CallDeltas, LAMBDA ev : ev.item_id = X)
    IN  [i \in 1..Len(ds) |-> ds[i].delta]
RegisteredFirst(X) ==
    /\ events # <<>>
    /\ events[1].cls = "ResponseOutputItemAdded"
    /\ events[1].item.id = X /\ events[1].item.type = "function_call"

\* C20 as stated: for a function call whose deltas were followed by its done event
\* with a valid-JSON arguments string, the concatenation of the accumulated
\* fragments parses to the recorded arguments
C20_AccumulatedParsesToArguments ==
    agg_pc = "returned" =>
        \A i \in 1..Len(final.function_calls) :
            LET rec == final.function_calls[i]
            IN  JsonValid(rec.arguments_raw) =>
                    /\ JsonValid(Concat(Accumulated(rec.id)))
                    /\ JsonLoads(Concat(Accumulated(rec.id))) = rec.arguments

\* C20: for a function call that was registered by its output_item.added before
\* its deltas, and whose done event carries a valid-JSON arguments string equal to
\* the concatenation of the fragments its delta events carried, the accumulated
\* fragments are those fragments in order, and their concatenation parses to the
\* recorded arguments
C20_ConsistentStreamParsesToArguments ==
    agg_pc = "returned" =>
        \A i \in 1..Len(final.function_calls) :
            LET rec == final.function_calls[i]
            IN  (/\ JsonValid(rec.arguments_raw)
                 /\ RegisteredFirst(rec.id)
                 /\ rec.arguments_raw = Concat(SentFor(rec.id))) =>
                    /\ Accumulated(rec.id) = SentFor(rec.id)
                    /\ JsonValid(Concat(Accumulated(rec.id)))
                    /\ JsonLoads(Concat(Accumulated(rec.id))) = rec.arguments

\* x was registered, its deltas "{" and "}" came in two events around a delta of y,
\* and its done event carried "{}"
C20_Witness ==
    /\ agg_pc = "returned"
    /\ RegisteredFirst("x")
    /\ SentFor("x") = <<<<"{">>, <<"}">>>>
    /\ SentFor("y") # <<>>
    /\ Len(final.function_calls) = 1
    /\ final.function_calls[1].arguments_raw = <<"{", "}">>
    /\ final.function_calls[1].arguments = JsonLoads(<<"{", "}">>)

\* request r's client is sent the error event in this step
ErrorWritten(r) ==
    /\ Len(req'[r].out) = Len(req[r].out) + 1
    /\ req'[r].out[Len(req'[r].out)] = "error"

\* C21: the error event is written to a request's client only when its invocation
\* fails (the request ends in this step) with the client open and nothing
\* delivered to that client before; a client that was delivered anything is never
\* sent the error event
C21_ErrorOnlyBeforeAnyOutput ==
    [][\A r \in Requests :
         ErrorWritten(r) =>
            /\ req[r].pc \in {"post", "streaming"} /\ req'[r].pc = "done"
            /\ req[r].client_open
            /\ req[r].out = <<>>
            /\ ~req[r].saw_any_stream /\ ~req[r].saw_completed]_vars

\* one request's invocation failed before anything was delivered and its client
\* was sent the error event; the other's failed after a text Delta and was not
C21_Witness ==
    /\ req["r1"].pc = "done" /\ req["r1"].out = <<"error">>
    /\ req["r2"].pc = "done" /\ req["r2"].out = <<"text">>
    /\ req["r2"].client_open

\* the Agents requests have been given by the get-or-create
AgentsInUse == {req[r].agent : r \in {q \in Requests : req[q].agent # NoneStr}}

NoneInFlight == \A r \in Requests : req[r].pc \in {"new", "lookup", "done"}

\* C23 (as claimed): when no request of the conversation is in flight, the items
\* persisted for the conversation are the items of the session's Agent
C23_StoreEqualsAgentItems ==
    (SESSIONS # NoneStr /\ NoneInFlight) => STORE = agents[SESSIONS].items

\* a Delta is written to the client of request c in this step
DeltaWritten(c) ==
    /\ Len(req'[c].out) = Len(req[c].out) + 1
    /\ req'[c].out[Len(req'[c].out)] \in {"text", "completed"}

\* C24 (as claimed): a Delta written to a request's client was produced by that
\* request's own invocation
C24_DeltaToOwnClient ==
    [][\A c \in Requests :
         DeltaWritten(c) =>
            /\ req[c].pc = "streaming"
            /\ req'[c].deltas = req[c].deltas + 1]_vars

\* iter_events as a function of the text of the whole body: the events yielded
\* from buf with the data lines ls pending, after the events acc
RECURSIVE Yields(_, _, _)
Yields(buf, ls, acc) ==
    IF Find(buf) = 0 THEN acc
    ELSE LET line == SubSeq(buf, 1, Find(buf) - 1)
             rest == SubSeq(buf, Find(buf) + 1, Len(buf))
         IN  IF Strip(line) # <<>> THEN Yields(rest, DataLines(ls, line), acc)
             ELSE IF ls = <<>> THEN Yields(rest, <<>>, acc)
             ELSE IF DecodeFrame(Join(ls)).outcome = "yield"
             THEN Yields(rest, <<>>, Append(acc, DecodeFrame(Join(ls)).ev))
             ELSE acc

\* C25 (as claimed): whenever the decoder has worked off the chunks it was given,
\* the events it has yielded are those of the same bytes given as one chunk
C25_ChunkingInvariant ==
    dec_pc \in {"reading", "ended", "raised"} =>
        events = Yields(Utf8Decode(Concat(received)), <<>>, <<>>)

\* the decoder is at the blank line that ends a frame whose payload is JSON but
\* is no event of a typed variant
MismatchFrame ==
    /\ dec_pc = "lines" /\ agg_pc = "streaming"
    /\ Find(_buffer) > 0 /\ Strip(NextLine) = <<>>
    /\ _cur_data_lines # <<>>
    /\ IsJson(Join(_cur_data_lines))
    /\ ~IsObjectOf(Join(_cur_data_lines), TypedKinds)
    /\ ~IsTextDelta(Join(_cur_data_lines))

\* C26 (as claimed): a frame whose payload is valid JSON without matching a typed
\* variant yields one UnknownEvent and raises nothing
C26_SchemaMismatchNonFatal ==
    [][MismatchFrame =>
         /\ dec_pc' = "yield" /\ error' = error
         /\ DecodeFrame(Join(_cur_data_lines)).outcome = "yield"
         /\ Yielded.cls = "UnknownEvent"]_vars

\* the text the decoder was given, and the part of it taken out of the buffer
DecodedText == Concat([i \in 1..Len(received) |-> Utf8Decode(received[i])])
Processed == SubSeq(DecodedText, 1, Len(DecodedText) - Len(_buffer))

\* the lines of text behind its last blank line: the lines of the open frame
RECURSIVE OpenFrame(_, _)
OpenFrame(t, acc) ==
    IF Find(t) = 0 THEN acc
    ELSE LET line == SubSeq(t, 1, Find(t) - 1)
             rest == SubSeq(t, Find(t) + 1, Len(t))
         IN  IF Strip(line) = <<>> THEN OpenFrame(rest, <<>>)
             ELSE OpenFrame(rest, Append(acc, line))
FrameLines == OpenFrame(Processed, <<>>)

\* the values of the data fields among ls, each without one leading space
StripOneSpace(t) == IF t # <<>> /\ t[1] = " " THEN Tail(t) ELSE t
RECURSIVE DataValues(_)
DataValues(ls) ==
    IF ls = <<>> THEN <<>>
    ELSE IF StartsWith(ls[1], DataField)
    THEN <<StripOneSpace(After(ls[1], DataField))>> \o DataValues(Tail(ls))
    ELSE DataValues(Tail(ls))

\* C27 (as claimed): the payload collected for the open frame is the values of its
\* data fields, each without one leading space, in order; no other line adds to it
C27_PayloadIsDataFields ==
    dec_pc \in {"lines", "reading"} => _cur_data_lines = DataValues(FrameLines)

\* only event fields and comments, or nothing
NoDataFrame(ls) ==
    \A i \in 1..Len(ls) : StartsWith(ls[i], EventField) \/ StartsWith(ls[i], <<":">>)

\* C28: at the blank line that ends a frame holding only event fields and
\* comments, or nothing, the decoder yields no event, raises nothing and goes on
\* with no data lines and no event name
C28_FrameWithoutDataYieldsNothing ==
    [][(/\ dec_pc = "lines" /\ agg_pc = "streaming"
        /\ Find(_buffer) > 0 /\ Strip(NextLine) = <<>>
        /\ NoDataFrame(FrameLines)) =>
            /\ dec_pc' = "lines" /\ agg_pc' = "streaming"
            /\ events' = events /\ sink' = sink /\ error' = error
            /\ _cur_data_lines' = <<>> /\ _cur_event' = NoneText]_vars

\* the frame of an event field and a comment was ended by its blank line, and the
\* frame after it was decoded
C28_Witness ==
    /\ Len(received) = 4
    /\ received[1] = EventField \o <<"x", "\n">>
    /\ received[2] = <<":", "k", "\n">>
    /\ received[3] = <<"\n">>
    /\ dec_pc = "reading" /\ _buffer = <<>>
    /\ _cur_event = NoneText /\ _cur_data_lines = <<>>
    /\ Len(events) = 1 /\ error = NoneStr

\* the position of the latest output_item.added of message X among the events
IsMessageAdded(ev, X) ==
    ev.cls = "ResponseOutputItemAdded" /\ ev.item.type = "message" /\ ev.item.id = X
LatestRegistration(X) ==
    LET at == {i \in 1..Len(events) : IsMessageAdded(events[i], X)}
    IN  IF at = {} THEN 0 ELSE CHOOSE i \in at : \A j \in at : j <= i

\* the fragments of the output_text.delta events among evs that match
FragmentsOf(evs, Match(_)) ==
    LET sel == SelectSeq(evs, LAMBDA ev : ev.cls = "ResponseOutputTextDelta" /\ Match(ev))
    IN  [i \in 1..Len(sel) |-> sel[i].delta]
ReceivedSince(X, c) ==
    FragmentsOf(SubSeq(events, LatestRegistration(X) + 1, Len(events)),
                LAMBDA ev : ev.item_id = X /\ ev.content_index = c)

TakenNow == events'[Len(events')]
TakesEvent == Len(events') = Len(events) + 1

\* the payload field of a fallback tag, and the typed class of the tag
PayloadKey(tag) ==
    CASE tag = "response.function_call_arguments.delta" -> "delta"
      [] tag = "response.function_call_arguments.done" -> "arguments"
      [] tag = "response.custom_tool_call_input.delta" -> "delta"
      [] OTHER -> "input"
TypedClass(tag) ==
    CASE tag = "response.function_call_arguments.delta" -> "ResponseFunctionCallArgumentsDelta"
      [] tag = "response.function_call_arguments.done" -> "ResponseFunctionCallArgumentsDone"
      [] tag = "response.custom_tool_call_input.delta" -> "ResponseCustomToolCallInputDelta"
      [] OTHER -> "ResponseCustomToolCallInputDone"

\* an UnknownEvent of a fallback tag that has the fields of the typed event
IsFullFallback(ev) ==
    /\ ev.cls = "UnknownEvent" /\ ev.type \in FallbackTags
    /\ {"item_id", "output_index", PayloadKey(ev.type)} \subseteq DOMAIN ev.raw

\* what the typed event of class cls with these fields does to the aggregator
TypedEffect(cls, item_id, oi, payload) ==
    CASE cls = "ResponseFunctionCallArgumentsDelta" ->
           /\ _fn' = IF Has(_fn, item_id)
                     THEN [_fn EXCEPT ![item_id].chunks = Append(@, payload)] ELSE _fn
           /\ sink' = Emit(FunctionArgumentsDelta(oi, item_id, payload))
           /\ UNCHANGED <<final, _msg, _rsn, _ct>>
      [] cls = "ResponseFunctionCallArgumentsDone" ->
           /\ final' = [final EXCEPT !.function_calls =
                           Append(@, FunctionCallRecord(item_id, oi, payload))]
           /\ UNCHANGED <<_msg, _rsn, _fn, _ct, sink>>
      [] cls = "ResponseCustomToolCallInputDelta" ->
           /\ _ct' = IF Has(_ct, item_id)
                     THEN [_ct EXCEPT ![item_id].chunks = Append(@, payload)] ELSE _ct
           /\ sink' = Emit(CustomInputDelta(oi, item_id, payload))
           /\ UNCHANGED <<final, _msg, _rsn, _fn>>
      [] OTHER ->
           /\ final' = [final EXCEPT !.custom_tool_calls =
                           Append(@, CustomToolCallRecord(item_id, oi, payload))]
           /\ UNCHANGED <<_msg, _rsn, _fn, _ct, sink>>
TypedPayload(ev) ==
    CASE ev.cls \in {"ResponseFunctionCallArgumentsDelta", "ResponseCustomToolCallInputDelta"} -> ev.delta
      [] ev.cls = "ResponseFunctionCallArgumentsDone" -> ev.arguments
      [] OTHER -> ev.input

\* C30: TypedEffect is what each of the four typed events does, and an UnknownEvent
\* of a fallback tag carrying item_id, output_index and the payload field does
\* what the typed event with these fields does: the same per-item state, the same
\* call record, the same Delta or none, and no unknown Delta
C30_FallbackEqualsTyped ==
    [][TakesEvent =>
         /\ TakenNow.cls \in {TypedClass(tag) : tag \in FallbackTags} =>
              TypedEffect(TakenNow.cls, TakenNow.item_id, TakenNow.output_index,
                          TypedPayload(TakenNow))
         /\ IsFullFallback(TakenNow) =>
              TypedEffect(TypedClass(TakenNow.type), TakenNow.raw["item_id"],
                          TakenNow.raw["output_index"],
                          TakenNow.raw[PayloadKey(TakenNow.type)])]_vars

\* a fallback function_call_arguments.delta with all its fields was accumulated
\* for the registered x and forwarded as a function.arguments Delta
C30_Witness ==
    /\ Len(events) = 2
    /\ IsFullFallback(events[2])
    /\ events[2].type = "response.function_call_arguments.delta"
    /\ Has(_fn, "x") /\ _fn["x"].chunks = <<events[2].raw["delta"]>>
    /\ Len(sink) = 2 /\ sink[2].kind = "function.arguments"

\* ------------------------------------------------------------------ SpecLoop
\* One invocation of one Agent against an endpoint that behaves: every POST is
\* answered 200, every body closes with response.completed as its last event,
\* every call of a turn names a registered item and tool and the tool returns,
\* and the last turn the endpoint is asked for has no call.  The coroutine is
\* scheduled until it returns or raises (LoopStep), the endpoint sends what it
\* has started (BodyStep).
LoopStep ==
    \/ Post(200)
    \/ Collect
    \/ FunctionCall("ok")
    \/ CustomToolCall("ok")

BodyStep ==
    \/ \E ev \in CompletedEvents({<<>>, <<MessageX>>}) : ~HasCompleted /\ ResponseCompleted(ev)
    \/ HasCompleted /\ StreamEnd

CallStep ==
    /\ turn < MaxTurns
    /\ ~HasCompleted
    /\ Len(events) + 1 < MaxTurnEvents
    /\ \/ \E ev \in AddedEvents({FunctionX, CustomY}) : ResponseOutputItemAdded(ev)
       \/ \E ev \in FunctionDoneEvents({"x"}, {<<"{", "}">>}) :
              Has(_fn, ev.item_id) /\ ResponseFunctionCallArgumentsDone(ev)
       \/ \E ev \in CustomDoneEvents({"y"}, {<<"a">>}) :
              Has(_ct, ev.item_id) /\ ResponseCustomToolCallInputDone(ev)

NextLoop ==
    \/ \E p \in Prompts : calls < Cardinality(Prompts) /\ Invoke(p)
    \/ LoopStep
    \/ BodyStep
    \/ CallStep

SpecLoop == InitAgent /\ [][NextLoop]_vars /\ WF_vars(LoopStep) /\ WF_vars(BodyStep)

\* C31: when every request is answered 200, every body ends with
\* response.completed, every call of a turn is dispatched to a tool that returns
\* and the endpoint comes to a turn without calls, an invocation of the Agent
\* leads to its return; the turns before it are as many as the endpoint asks for
C31_InvocationReturns == (calls = 1) ~> (pc = "returned")

\* the invocation has returned after tool calls were run in every turn but the last
C31_Witness ==
    /\ pc = "returned"
    /\ turn = MaxTurns
    /\ \E i \in 1..Len(items) :
           /\ DOMAIN items[i] = {"type", "call_id", "output"}
           /\ items[i].output = "ok"

\* the step holds a failed write of emit or of the usage event to client c
WriteFails(c) == req[c].client_open /\ ~req'[c].client_open

\* agent(prompt) of r returns in this step
Returns(r) == req[r].pc = "streaming" /\ req'[r].pc = "done" /\ agents' # agents

\* agent(prompt) of r raises in this step
Raises(r) == req[r].pc \in {"post", "streaming"} /\ req'[r].pc = "done" /\ agents' = agents

\* C32: after a failed write to a client nothing more is written to it and the
\* client stays closed; the failed write raises in no invocation; an invocation
\* whose client is closed, when it returns, has its new_items appended to the
\* store
C32_ClosedClientIsSkipped ==
    [][\A r \in Requests :
          /\ ~req[r].client_open => req'[r].out = req[r].out /\ ~req'[r].client_open
          /\ WriteFails(r) => \A q \in Requests : ~Raises(q)
          /\ Returns(r) =>
                 STORE' = STORE \o NewItems(agents'[req[r].agent].items, req[r])]_vars

\* a request whose client was lost during its first turn went on to a second
\* turn and returned: it is done, with nothing but what was written before the
\* loss, and the store ends with its new items
C32_Witness ==
    \E r \in Requests :
        /\ req[r].pc = "done" /\ ~req[r].client_open /\ req[r].turn = 2
        /\ req[r].out = <<"text">>
        /\ Len(STORE) >= 3
        /\ STORE[Len(STORE)] = AssistantItem("message", r, 2)

\* C33: an event of a typed class without a handler (output_text.done,
\* content_part.done, reasoning_summary_part.added, reasoning_summary_part.done)
\* emits no Delta and changes no per-item state and no field of the result
C33_UnhandledTypedEventsIgnored ==
    [][(Len(events') = Len(events) + 1 /\ events'[Len(events')].cls \in IgnoredClasses)
          => UNCHANGED <<final, _msg, _rsn, _fn, _ct, sink>>]_vars

\* an unhandled typed event was taken after a message was registered and a text
\* fragment arrived for it: text, state and Deltas are those of the two earlier
\* events
C33_Witness ==
    /\ Len(events) = 3
    /\ events[1].cls = "ResponseOutputItemAdded"
    /\ events[2].cls = "ResponseOutputTextDelta"
    /\ events[3].cls \in IgnoredClasses
    /\ Has(_msg, events[2].item_id)
    /\ final.text # <<>>
    /\ Len(sink) = 2

====
